---------------------------- MODULE Spec2Model ----------------------------
(***************************************************************************)
(* A model of the generic MCP server: the operation dispatcher             *)
(* (app/main.py), the step executor and its template engine                *)
(* (app/services/http_client.py), the auth injector                        *)
(* (app/services/security.py) and the stdio JSON-RPC loop (run.py).        *)
(*                                                                         *)
(* Text is a sequence of one-character strings, so that placeholders,      *)
(* paths and header names are scanned character by character as the code's *)
(* regular expressions and str methods do.  A JSON-like value is a record  *)
(* [t, v]: t is the Python type, v the payload.  A dict is a function from *)
(* keys (texts) to values.                                                 *)
(***************************************************************************)
EXTENDS Integers, Sequences, FiniteSets, TLC

(***************************************************************************)
(* Bounds of the model.                                                    *)
(***************************************************************************)
MaxSteps == 2
MaxLines == 3
MaxTasks == 2
MaxSchemas == 2

(***************************************************************************)
(* JSON-like values.                                                       *)
(***************************************************************************)
NullV == [t |-> "null", v |-> 0]
BoolV(b) == [t |-> "bool", v |-> b]
NumV(n) == [t |-> "num", v |-> n]
StrV(s) == [t |-> "str", v |-> s]
ListV(s) == [t |-> "list", v |-> s]
MapV(f) == [t |-> "map", v |-> f]

\* The empty dict.
EmptyMap == [k \in {} |-> NullV]

\* What a raised KeyError is to the callers of _resolve_value.
KeyError == [t |-> "KeyError", v |-> 0]

\* The sentinel object() that marks a pruned branch.
UNSET == [t |-> "_UNSET", v |-> 0]

\* The keys of the dicts of the model in the order their entries are written
\* (json.dumps writes a dict's entries in insertion order).
PATH_PARAMS == <<"p", "a", "t", "h", "_", "p", "a", "r", "a", "m", "s">>

INCOMING_REQUEST_BODY ==
  <<"i", "n", "c", "o", "m", "i", "n", "g", "_", "r", "e", "q", "u", "e", "s", "t",
    "_", "b", "o", "d", "y">>

KeyOrder ==
  << PATH_PARAMS, INCOMING_REQUEST_BODY,
     <<"a">>, <<"e">>, <<"i">>, <<"m">>, <<"n">>, <<"s">>, <<"t">>, <<"u">> >>

RECURSIVE SetToSeq(_)
SetToSeq(S) ==
  IF S = {} THEN << >>
  ELSE LET x == CHOOSE y \in S : TRUE IN <<x>> \o SetToSeq(S \ {x})

\* The keys of dict f, those of KeyOrder first and in that order.
OrderedKeys(f) ==
  SelectSeq(KeyOrder, LAMBDA k : k \in DOMAIN f)
  \o SetToSeq(DOMAIN f \ {KeyOrder[k] : k \in 1..Len(KeyOrder)})

(***************************************************************************)
(* Text helpers: str.strip, str.isdigit, int, str(int).                    *)
(***************************************************************************)
Digits == <<"0", "1", "2", "3", "4", "5", "6", "7", "8", "9">>

IsDigitChar(c) == \E d \in 1..10 : Digits[d] = c

DigitVal(c) == (CHOOSE d \in 1..10 : Digits[d] = c) - 1

\* str.isdigit: non-empty and every character a digit.
isdigit(p) == Len(p) > 0 /\ \A k \in 1..Len(p) : IsDigitChar(p[k])

RECURSIVE int(_)
int(p) ==
  IF Len(p) = 0 THEN 0
  ELSE 10 * int(SubSeq(p, 1, Len(p) - 1)) + DigitVal(p[Len(p)])

RECURSIVE str_int(_)
str_int(n) ==
  IF n < 10 THEN <<Digits[n + 1]>>
  ELSE str_int(n \div 10) \o <<Digits[(n % 10) + 1]>>

RECURSIVE strip(_)
strip(s) ==
  IF Len(s) > 0 /\ s[1] = " " THEN strip(Tail(s))
  ELSE IF Len(s) > 0 /\ s[Len(s)] = " " THEN strip(SubSeq(s, 1, Len(s) - 1))
  ELSE s

(***************************************************************************)
(* Path resolution.                                                        *)
(***************************************************************************)
IsPathSep(c) == c \in {".", "[", "]"}

\* _parse_path_tokens: split on ".", then on "[" and "]", dropping the empty
\* pieces.  A token stays a text here; _resolve_value converts the digit
\* tokens with int.
RECURSIVE _parse_path_tokens_from(_, _, _)
_parse_path_tokens_from(path, k, cur) ==
  IF k > Len(path)
  THEN IF Len(cur) = 0 THEN << >> ELSE <<cur>>
  ELSE IF IsPathSep(path[k])
       THEN (IF Len(cur) = 0 THEN << >> ELSE <<cur>>)
            \o _parse_path_tokens_from(path, k + 1, << >>)
       ELSE _parse_path_tokens_from(path, k + 1, Append(cur, path[k]))

_parse_path_tokens(path) == _parse_path_tokens_from(path, 1, << >>)

\* isinstance(value, Sequence): lists, and str too.
IsSequence(value) == value.t \in {"list", "str"}

\* One iteration of the loop of _resolve_value.
ResolveToken(value, tok) ==
  IF isdigit(tok)
  THEN IF ~IsSequence(value) THEN KeyError
       ELSE IF int(tok) >= Len(value.v) THEN KeyError
       ELSE IF value.t = "str" THEN StrV(<<value.v[int(tok) + 1]>>)
       ELSE value.v[int(tok) + 1]
  ELSE IF value.t # "map" THEN KeyError
       ELSE IF tok \notin DOMAIN value.v THEN KeyError
       ELSE value.v[tok]

RECURSIVE ResolveTokens(_, _)
ResolveTokens(toks, value) ==
  IF Len(toks) = 0 THEN value
  ELSE LET nxt == ResolveToken(value, Head(toks))
       IN  IF nxt = KeyError THEN KeyError ELSE ResolveTokens(Tail(toks), nxt)

_resolve_value(path, data) == ResolveTokens(_parse_path_tokens(path), data)

(***************************************************************************)
(* Template substitution.                                                  *)
(***************************************************************************)
\* json.dumps(value, separators=(",", ":")).
RECURSIVE json_dumps(_)
RECURSIVE json_dumps_list(_)
RECURSIVE json_dumps_map(_, _, _)
json_dumps(value) ==
  CASE value.t = "null" -> <<"n", "u", "l", "l">>
    [] value.t = "bool" -> IF value.v THEN <<"t", "r", "u", "e">>
                           ELSE <<"f", "a", "l", "s", "e">>
    [] value.t = "num" -> str_int(value.v)
    [] value.t = "str" -> <<"\"">> \o value.v \o <<"\"">>
    [] value.t = "list" -> <<"[">> \o json_dumps_list(value.v) \o <<"]">>
    [] value.t = "map" -> <<"{">> \o json_dumps_map(value.v, OrderedKeys(value.v), TRUE) \o <<"}">>

json_dumps_list(s) ==
  IF Len(s) = 0 THEN << >>
  ELSE IF Len(s) = 1 THEN json_dumps(s[1])
  ELSE json_dumps(s[1]) \o <<",">> \o json_dumps_list(Tail(s))

json_dumps_map(f, keys, first) ==
  IF Len(keys) = 0 THEN << >>
  ELSE (IF first THEN << >> ELSE <<",">>)
       \o <<"\"">> \o Head(keys) \o <<"\"", ":">>
       \o json_dumps(f[Head(keys)])
       \o json_dumps_map(f, Tail(keys), FALSE)

\* _replacer's conversion of a resolved value to text.
_replacer_text(resolved) ==
  CASE resolved.t = "null" -> <<"n", "u", "l", "l">>
    [] resolved.t = "bool" -> IF resolved.v THEN <<"t", "r", "u", "e">>
                              ELSE <<"f", "a", "l", "s", "e">>
    [] resolved.t \in {"map", "list"} -> json_dumps(resolved)
    [] resolved.t = "num" -> str_int(resolved.v)
    [] resolved.t = "str" -> resolved.v

\* _PLACEHOLDER_RE matches at k: "${", then the shortest run up to a "}".
ClosesAfter(text, k) == {j \in (k + 2)..Len(text) : text[j] = "}"}

PlaceholderAt(text, k) ==
  /\ k + 2 <= Len(text)
  /\ text[k] = "$"
  /\ text[k + 1] = "{"
  /\ ClosesAfter(text, k) # {}

FirstClose(text, k) ==
  CHOOSE j \in ClosesAfter(text, k) : \A j2 \in ClosesAfter(text, k) : j <= j2

\* A search that finds a placeholder only at the start of the text.
HasPlaceholderAtStart(text) == PlaceholderAt(text, 1)

\* _PLACEHOLDER_RE.search(val).
HasPlaceholder(text) == \E k \in 1..Len(text) : PlaceholderAt(text, k)

RECURSIVE _substitute_from(_, _, _)
_substitute_from(text, k, data) ==
  IF k > Len(text) THEN << >>
  ELSE IF PlaceholderAt(text, k)
       THEN LET j == FirstClose(text, k)
                path == strip(SubSeq(text, k + 2, j - 1))
                resolved == _resolve_value(path, data)
            IN  (IF resolved = KeyError THEN SubSeq(text, k, j)
                 ELSE _replacer_text(resolved))
                \o _substitute_from(text, j + 1, data)
       ELSE <<text[k]>> \o _substitute_from(text, k + 1, data)

\* A substitution that gives up on the whole text when one of its
\* placeholders does not resolve.
_substitute_all_or_nothing(text, data) ==
  IF \E k \in 1..Len(text) :
       /\ PlaceholderAt(text, k)
       /\ _resolve_value(strip(SubSeq(text, k + 2, FirstClose(text, k) - 1)), data)
            = KeyError
  THEN text
  ELSE _substitute_from(text, 1, data)

_substitute_templates_in_string(text, data) == _substitute_from(text, 1, data)

\* A resolution that treats every string as an inline one.
FullMatchNever(obj) == FALSE

\* re.fullmatch(r"\$\{(.*?)\}", obj): the whole text is "${" ... "}".
FullMatch(obj) ==
  Len(obj) >= 3 /\ obj[1] = "$" /\ obj[2] = "{" /\ obj[Len(obj)] = "}"

RECURSIVE _resolve_templates_in_obj(_, _)
_resolve_templates_in_obj(obj, data) ==
  CASE obj.t = "map" ->
         MapV([k \in DOMAIN obj.v |-> _resolve_templates_in_obj(obj.v[k], data)])
    [] obj.t = "list" ->
         ListV([k \in 1..Len(obj.v) |-> _resolve_templates_in_obj(obj.v[k], data)])
    [] obj.t = "str" ->
         IF FullMatch(obj.v)
         THEN LET resolved ==
                    _resolve_value(strip(SubSeq(obj.v, 3, Len(obj.v) - 1)), data)
              IN  IF resolved = KeyError THEN obj ELSE resolved
         ELSE StrV(_substitute_templates_in_string(obj.v, data))
    [] OTHER -> obj

RECURSIVE _prune_unresolved(_)
RECURSIVE PruneList(_)
_prune_unresolved(val) ==
  CASE val.t = "map" ->
         LET pruned == [k \in DOMAIN val.v |-> _prune_unresolved(val.v[k])]
             kept == {k \in DOMAIN val.v : pruned[k] # UNSET}
         IN  MapV([k \in kept |-> pruned[k]])
    [] val.t = "list" -> ListV(PruneList(val.v))
    [] val.t = "str" -> IF HasPlaceholder(val.v) THEN UNSET ELSE val
    [] OTHER -> val

PruneList(s) ==
  IF Len(s) = 0 THEN << >>
  ELSE LET x == _prune_unresolved(Head(s))
       IN  (IF x = UNSET THEN << >> ELSE <<x>>) \o PruneList(Tail(s))

(***************************************************************************)
(* The auth injector (app/services/security.py).                           *)
(***************************************************************************)
UpperChars ==
  <<"A", "B", "C", "D", "E", "F", "G", "H", "I", "J", "K", "L", "M",
    "N", "O", "P", "Q", "R", "S", "T", "U", "V", "W", "X", "Y", "Z">>

LowerChars ==
  <<"a", "b", "c", "d", "e", "f", "g", "h", "i", "j", "k", "l", "m",
    "n", "o", "p", "q", "r", "s", "t", "u", "v", "w", "x", "y", "z">>

\* str.lower.
lower(s) ==
  [k \in 1..Len(s) |->
     IF \E u \in 1..26 : UpperChars[u] = s[k]
     THEN LowerChars[CHOOSE u \in 1..26 : UpperChars[u] = s[k]]
     ELSE s[k]]

\* str.upper.
upper(s) ==
  [k \in 1..Len(s) |->
     IF \E u \in 1..26 : LowerChars[u] = s[k]
     THEN UpperChars[CHOOSE u \in 1..26 : LowerChars[u] = s[k]]
     ELSE s[k]]

AUTHORIZATION_LOWER ==
  <<"a", "u", "t", "h", "o", "r", "i", "z", "a", "t", "i", "o", "n">>

AUTHORIZATION ==
  <<"A", "u", "t", "h", "o", "r", "i", "z", "a", "t", "i", "o", "n">>

\* No auth scheme: security_schemes.get(...) gave None.
NoScheme == [present |-> FALSE, type |-> "", name |-> << >>, in |-> "", scheme |-> ""]

\* dict.get(key): the value, or << >> for None.  `not value` is true of both
\* None and the empty text.
HeaderGet(headers, key) == IF key \in DOMAIN headers THEN headers[key] ELSE << >>

\* The headers apply_auth reads the credential from: those of the inbound
\* Request, or the '__auth_headers__' of a dict.
ProviderHeaders(auth_provider) ==
  IF auth_provider.kind \in {"Request", "dict"} THEN auth_provider.headers
  ELSE [k \in {} |-> << >>]

AuthOk(request) == [ok |-> TRUE, request |-> request, error |-> ""]

AuthError(request, error) == [ok |-> FALSE, request |-> request, error |-> error]

\* An injector that never raises for a missing credential.
apply_auth_unchecked(outgoing_request, auth_scheme, auth_provider) ==
  AuthOk(outgoing_request)

apply_auth(outgoing_request, auth_scheme, auth_provider) ==
  IF ~auth_scheme.present THEN AuthOk(outgoing_request)
  ELSE
    LET headers == ProviderHeaders(auth_provider)
    IN  IF auth_scheme.type = "apiKey"
        THEN LET key_name == auth_scheme.name
                 key_value == HeaderGet(headers, lower(key_name))
             IN  IF Len(key_name) = 0
                 THEN AuthError(outgoing_request, "apiKey is missing a name")
                 ELSE IF Len(key_value) = 0
                 THEN AuthError(outgoing_request, "required auth key not found")
                 ELSE IF auth_scheme.in = "header"
                 THEN AuthOk([outgoing_request EXCEPT
                        !.headers = [k \in DOMAIN @ \cup {key_name} |->
                                       IF k = key_name THEN key_value ELSE @[k]]])
                 ELSE IF auth_scheme.in = "query"
                 THEN AuthOk([outgoing_request EXCEPT
                        !.query = [k \in DOMAIN @ \cup {key_name} |->
                                     IF k = key_name THEN key_value ELSE @[k]]])
                 ELSE AuthOk(outgoing_request)
        ELSE IF auth_scheme.type = "http" /\ auth_scheme.scheme \in {"bearer", "basic"}
        THEN LET auth_header_value == HeaderGet(headers, AUTHORIZATION_LOWER)
             IN  IF Len(auth_header_value) = 0
                 THEN AuthError(outgoing_request, "Authorization header not found")
                 ELSE AuthOk([outgoing_request EXCEPT
                        !.headers = [k \in DOMAIN @ \cup {AUTHORIZATION} |->
                                       IF k = AUTHORIZATION THEN auth_header_value
                                       ELSE @[k]]])
        ELSE AuthOk(outgoing_request)

(***************************************************************************)
(* Request-body models (app/core/dynamic_models.py and pydantic).          *)
(* A schema table is a sequence of [name, properties, required], in the    *)
(* order of the keys of components.schemas; properties maps a property to  *)
(* [type, ref], ref being the text of its '$ref' or << >>.  The property   *)
(* types of the model are string, integer and boolean.                     *)
(***************************************************************************)
\* ref.split('/')[-1]
RECURSIVE LastSegment(_)
LastSegment(ref) ==
  IF \E k \in 1..Len(ref) : ref[k] = "/"
  THEN LastSegment(SubSeq(ref, (CHOOSE k \in 1..Len(ref) : ref[k] = "/") + 1, Len(ref)))
  ELSE ref

SchemaNamed(schemas, name) ==
  schemas[CHOOSE k \in 1..Len(schemas) : schemas[k].name = name]

\* The inner loop over a schema's properties: every '$ref' property names a
\* model that model_cache already holds.
DependenciesMet(schema, model_cache) ==
  \A prop \in DOMAIN schema.properties :
    Len(schema.properties[prop].ref) > 0
      => LastSegment(schema.properties[prop].ref) \in model_cache

\* One pass of the while loop over schemas_to_process.
RECURSIVE ProcessPass(_, _, _, _)
ProcessPass(todo, schemas, model_cache, processed_this_pass) ==
  IF Len(todo) = 0
  THEN [model_cache |-> model_cache, processed_this_pass |-> processed_this_pass]
  ELSE IF DependenciesMet(SchemaNamed(schemas, Head(todo)), model_cache)
       THEN ProcessPass(Tail(todo), schemas, model_cache \cup {Head(todo)},
                        processed_this_pass \cup {Head(todo)})
       ELSE ProcessPass(Tail(todo), schemas, model_cache, processed_this_pass)

RECURSIVE ProcessPasses(_, _, _, _, _)
ProcessPasses(schemas_to_process, schemas, model_cache, passes, max_passes) ==
  IF Len(schemas_to_process) = 0 \/ passes >= max_passes
  THEN [ok |-> TRUE, models |-> model_cache]
  ELSE LET r == ProcessPass(schemas_to_process, schemas, model_cache, {})
       IN  IF r.processed_this_pass = {}
           THEN [ok |-> FALSE, models |-> model_cache]
           ELSE ProcessPasses(
                  SelectSeq(schemas_to_process,
                            LAMBDA n : n \notin r.processed_this_pass),
                  schemas, r.model_cache, passes + 1, max_passes)

\* The names of the models created, or ok = FALSE for the RuntimeError.
create_pydantic_models(schemas) ==
  ProcessPasses([k \in 1..Len(schemas) |-> schemas[k].name], schemas, {}, 0,
                Len(schemas) + 1)

\* pydantic's validation of one field value (lax mode): the value stored, or
\* KeyError's sibling Invalid.
Invalid == [t |-> "ValidationError", v |-> 0]

RECURSIVE ValidateModel(_, _, _)
ValidateField(schemas, prop, value) ==
  IF Len(prop.ref) > 0
  THEN IF value.t = "map"
       THEN ValidateModel(schemas, LastSegment(prop.ref), value.v)
       ELSE Invalid
  ELSE CASE prop.type = "string" ->
              IF value.t = "str" THEN value ELSE Invalid
         [] prop.type = "integer" ->
              IF value.t = "num" THEN value
              ELSE IF value.t = "bool" THEN NumV(IF value.v THEN 1 ELSE 0)
              ELSE IF value.t = "str" /\ isdigit(value.v) THEN NumV(int(value.v))
              ELSE Invalid
         [] prop.type = "boolean" ->
              IF value.t = "bool" THEN value
              ELSE IF value.t = "num" /\ value.v \in {0, 1} THEN BoolV(value.v = 1)
              ELSE Invalid
         [] OTHER -> value

\* body_model(**params) followed by model_dump(exclude_unset=True): the dict
\* of the fields that were set, or Invalid when validation fails.
ValidateModel(schemas, name, params) ==
  LET schema == SchemaNamed(schemas, name)
      fields == DOMAIN schema.properties
      set == fields \cap DOMAIN params
      stored == [f \in set |-> ValidateField(schemas, schema.properties[f], params[f])]
  IN  IF \E f \in schema.required \cap fields : f \notin DOMAIN params THEN Invalid
      ELSE IF \E f \in set : stored[f] = Invalid THEN Invalid
      ELSE MapV(stored)

(***************************************************************************)
(* The loaded configuration and the inputs of a dispatch.                  *)
(***************************************************************************)
\* Python's None where a value or a body model may stand.
None == [t |-> "None", v |-> 0]

\* "${" path "}"
Placeholder(path) == <<"$", "{">> \o path \o <<"}">>

GET == <<"g", "e", "t">>

POST == <<"p", "o", "s", "t">>

\* A first step, addressed by a path parameter.
StepS ==
  [step_id |-> <<"s">>, method |-> GET,
   url |-> <<"/", "a", "/">> \o Placeholder(PATH_PARAMS \o <<".", "i">>),
   body |-> None]

\* A step that reads step s's output in its URL and in its body template.
StepT ==
  [step_id |-> <<"t">>, method |-> POST,
   url |-> <<"/", "b", "/">> \o Placeholder(<<"s", ".", "i">>),
   body |-> MapV(<<"m">> :> StrV(Placeholder(<<"s", ".", "i">>))
                 @@ <<"n">> :> StrV(Placeholder(INCOMING_REQUEST_BODY \o <<".", "n">>)))]

\* A step whose configuration lacks the step_id.
StepNoId ==
  [step_id |-> << >>, method |-> GET, url |-> <<"/", "c">>, body |-> None]

\* A step whose URL reads a step that never runs and then a path parameter,
\* and whose body template is, in full, one placeholder for a field of step
\* s's output.
StepU ==
  [step_id |-> <<"u">>, method |-> GET,
   url |-> <<"/", "u", "/">> \o Placeholder(<<"z", ".", "i">>) \o <<"/">>
           \o Placeholder(PATH_PARAMS \o <<".", "i">>),
   body |-> StrV(Placeholder(<<"s", ".", "i">>))]

StepChoices == {StepS, StepT, StepNoId, StepU}

RECURSIVE SeqsUpTo(_, _)
SeqsUpTo(S, n) ==
  IF n = 0 THEN {<< >>}
  ELSE LET shorter == SeqsUpTo(S, n - 1)
       IN  shorter \cup {Append(q, x) : q \in {r \in shorter : Len(r) = n - 1}, x \in S}

StepLists == SeqsUpTo(StepChoices, MaxSteps)

\* security_schemes of the configuration.
ApiKeyHeaderScheme ==
  [present |-> TRUE, type |-> "apiKey", name |-> <<"X", "-", "K">>, in |-> "header",
   scheme |-> ""]

ApiKeyQueryScheme ==
  [present |-> TRUE, type |-> "apiKey", name |-> <<"X", "-", "K">>, in |-> "query",
   scheme |-> ""]

BearerScheme ==
  [present |-> TRUE, type |-> "http", name |-> << >>, in |-> "", scheme |-> "bearer"]

BasicScheme ==
  [present |-> TRUE, type |-> "http", name |-> << >>, in |-> "", scheme |-> "basic"]

SecuritySchemes == [key |-> ApiKeyHeaderScheme, bearer |-> BearerScheme]

\* security_schemes.get(auth_scheme_name)
SchemeNamed(security_schemes, auth_scheme_name) ==
  IF auth_scheme_name \in DOMAIN security_schemes
  THEN security_schemes[auth_scheme_name]
  ELSE NoScheme

\* components.schemas: the body model B with a required string n and an
\* optional integer i.
BodySchemas ==
  << [name |-> <<"B">>,
      properties |-> (<<"n">> :> [type |-> "string", ref |-> << >>]
                      @@ <<"i">> :> [type |-> "integer", ref |-> << >>]),
      required |-> {<<"n">>}] >>

\* requestBody of an operation: declared or not, and the '$ref' of its
\* application/json schema (<< >> when it has none).
RequestBodies ==
  { [declared |-> FALSE, ref |-> << >>],
    [declared |-> TRUE, ref |-> <<"#", "/", "s", "/", "B">>],
    [declared |-> TRUE, ref |-> <<"#", "/", "s", "/", "Z">>],
    [declared |-> TRUE, ref |-> << >>] }

HttpOperation(steps, auth_scheme_name, requestBody) ==
  [requestBody |-> requestBody,
   auth_scheme_name |-> auth_scheme_name,
   parameters |-> << [name |-> <<"i">>, in |-> "path"],
                     [name |-> <<"n">>, in |-> "query"] >>,
   source_config |-> [type |-> "http", steps |-> steps]]

\* An operation of a source type the dispatcher does not implement.
OtherOperation ==
  [requestBody |-> [declared |-> FALSE, ref |-> << >>],
   auth_scheme_name |-> "",
   parameters |-> << >>,
   source_config |-> [type |-> "grpc", steps |-> << >>]]

Configs ==
  { [operations |-> [op |-> HttpOperation(steps, auth, rb), other |-> OtherOperation],
     security_schemes |-> SecuritySchemes,
     schemas |-> BodySchemas] :
      steps \in StepLists, auth \in {"", "key", "bearer"}, rb \in RequestBodies }

OperationIds == {"op", "other", "nope"}

\* The params of a call.
ParamChoices ==
  { EmptyMap,
    <<"i">> :> StrV(<<"5">>),
    <<"i">> :> StrV(<<"5">>) @@ <<"n">> :> StrV(<<"x">>),
    <<"n">> :> NumV(3) }

\* The decoded body of a call: none, or a model instance, held as the dict
\* model_dump(exclude_unset=True) gives.
BodyChoices == {None, MapV(<<"n">> :> StrV(<<"y">>))}

\* The credential sources: an inbound Request (its header names are lower
\* case, as the server decodes them) with and without credentials.
ProviderChoices ==
  { [kind |-> "Request",
     headers |-> (<<"x", "-", "k">> :> <<"k", "1">>
                  @@ AUTHORIZATION_LOWER :> <<"B", "e", "a", "r", "e", "r", " ", "j">>)],
    [kind |-> "Request", headers |-> [k \in {} |-> << >>]] }

(***************************************************************************)
(* Downstream responses.                                                   *)
(***************************************************************************)
JSONDecodeError == [t |-> "JSONDecodeError", v |-> 0]

\* A response whose content-type is application/json and whose body is the
\* JSON text of value.
JsonResponse(status, value) ==
  [status |-> status, ctype_json |-> TRUE, text |-> json_dumps(value), parsed |-> value]

TextResponse(status, text) ==
  [status |-> status, ctype_json |-> FALSE, text |-> text, parsed |-> JSONDecodeError]

\* A response that announces JSON and carries a body that is none.
MalformedResponse ==
  [status |-> 200, ctype_json |-> TRUE, text |-> <<"{">>, parsed |-> JSONDecodeError]

ResponseChoices ==
  { JsonResponse(200, MapV(<<"i">> :> NumV(7))),
    JsonResponse(201, MapV(<<"i">> :> StrV(<<"p">>))),
    TextResponse(200, <<"o", "k">>),
    JsonResponse(500, MapV(<<"e">> :> NumV(1))),
    TextResponse(302, << >>),
    MalformedResponse }

\* What `received` records for a request that got no response.
NoResponse == [status |-> 0, ctype_json |-> FALSE, text |-> << >>, parsed |-> JSONDecodeError]

(***************************************************************************)
(* State of one dispatch.                                                  *)
(***************************************************************************)
VARIABLES
  config,         \* get_mcp_config(): loaded once, read by every dispatch
  pc,             \* "idle", "loop" (top of the for loop), "in_flight"
                  \* (awaiting client.send) or "done"
  call,           \* the arguments of dispatch_mcp_operation
  auth_scheme,    \* execute_http_steps' auth_scheme
  steps,          \* execute_http_steps' steps
  incoming_body,  \* execute_http_steps' incoming_body
  template_data,  \* the execution context
  step_index,     \* position of the for loop in steps, from 1
  client,         \* httpx.AsyncClient: "none", "open" or "closed"
  sent,           \* the requests handed to client.send, in order
  received,       \* what came back for each of them, in order
  outcome,        \* how the dispatch ended
  auth_pc,        \* apply_auth on its own: "off", "ready" or "applied"
  auth_case,      \* its arguments [request, scheme, provider]
  auth_result,    \* what it returned or raised
  stdio_pc,       \* run_stdio_mode: "off", "read", "await" (the dispatch is
                  \* awaited) or "exited"
  stdin,          \* the lines of standard input
  stdin_pos,      \* how many of them readline has consumed
  request_data,   \* run_stdio_mode's local request_data
  stdout,         \* the objects printed on standard output
  stderr,         \* the objects printed on standard error
  stdio_exc,      \* the exception that ended the loop, "" for none
  transport_pc,   \* an HTTP transport endpoint: "off", "open" (the request is
                  \* being handled), "emitted" (the event generator stands
                  \* at its yield) or "closed"
  inbound,        \* the request the endpoint handles
  reply,          \* the response of rpc_endpoint
  events,         \* what the event generator of sse_endpoint has yielded
  tpl_pc,         \* a template helper on its own: "off", "ready" or "done"
  tpl_case,       \* the helper and its arguments [fn, path, obj, data]
  tpl_result,     \* what it returned
  tasks,          \* the state of each of the concurrent dispatches
  builder         \* the locals of a call of create_pydantic_models: pc ("off",
                  \* "loop" at the test of the while loop, "returned" or
                  \* "raised"), schemas_to_process, model_cache and passes

dispatchVars ==
  <<config, pc, call, auth_scheme, steps, incoming_body, template_data, step_index,
    client, sent, received, outcome>>

authVars == <<auth_pc, auth_case, auth_result>>

stdioVars == <<stdio_pc, stdin, stdin_pos, request_data, stdout, stderr, stdio_exc>>

transportVars == <<transport_pc, inbound, reply, events>>

templateVars == <<tpl_pc, tpl_case, tpl_result>>

vars ==
  <<dispatchVars, authVars, stdioVars, transportVars, templateVars, builder, tasks>>

NoCall ==
  [operation_id |-> "", params |-> EmptyMap,
   auth_provider |-> [kind |-> "other", headers |-> [k \in {} |-> << >>]],
   body |-> None]

Pending == [kind |-> "none", exc |-> "", status |-> 0, detail |-> "", value |-> NullV]

Return(value) ==
  [kind |-> "return", exc |-> "", status |-> 0, detail |-> "", value |-> value]

Raise(exc, status, detail, value) ==
  [kind |-> "raise", exc |-> exc, status |-> status, detail |-> detail, value |-> value]

\* request_data before its first assignment.
Unbound == [t |-> "unbound", v |-> 0]

BaseRequest ==
  [method |-> upper(GET), url |-> <<"/", "a">>, query |-> [k \in {} |-> << >>],
   headers |-> [k \in {} |-> << >>], json |-> None]

\* apply_auth is not being applied on its own.
AuthIdle ==
  /\ auth_pc = "off"
  /\ auth_case = [request |-> BaseRequest, scheme |-> NoScheme,
                  provider |-> NoCall.auth_provider]
  /\ auth_result = AuthOk(BaseRequest)

\* The stdio loop is not running.
StdioIdle ==
  /\ stdio_pc = "off"
  /\ stdin = << >>
  /\ stdin_pos = 0
  /\ request_data = Unbound
  /\ stdout = << >>
  /\ stderr = << >>
  /\ stdio_exc = ""

\* What `inbound` holds when no transport endpoint is handling a request.
NoInbound ==
  [kind |-> "none", method |-> "", named |-> FALSE, params |-> EmptyMap, id |-> NullV,
   provider |-> NoCall.auth_provider]

\* What `reply` holds before rpc_endpoint has returned.
NoReply ==
  [status_code |-> 0, id |-> NullV, kind |-> "none", result |-> NullV, code |-> 0,
   data |-> ""]

\* No transport endpoint is handling a request.
TransportIdle ==
  /\ transport_pc = "off"
  /\ inbound = NoInbound
  /\ reply = NoReply
  /\ events = << >>

\* No template helper is being applied on its own.
TemplatesIdle ==
  /\ tpl_pc = "off"
  /\ tpl_case = [fn |-> "", path |-> << >>, obj |-> None, data |-> MapV(EmptyMap)]
  /\ tpl_result = None

\* No concurrent dispatches are running.
TasksIdle == tasks = << >>

\* create_pydantic_models is not being run on its own.
BuilderIdle ==
  builder = [pc |-> "off", schemas_to_process |-> << >>, model_cache |-> {},
             passes |-> 0]

\* No dispatch has been made.
DispatchIdle ==
  /\ pc = "idle"
  /\ call = NoCall
  /\ auth_scheme = NoScheme
  /\ steps = << >>
  /\ incoming_body = None
  /\ template_data = EmptyMap
  /\ step_index = 0
  /\ client = "none"
  /\ sent = << >>
  /\ received = << >>
  /\ outcome = Pending

Init ==
  /\ config \in Configs
  /\ DispatchIdle
  /\ AuthIdle
  /\ StdioIdle
  /\ TransportIdle
  /\ TemplatesIdle
  /\ TasksIdle
  /\ BuilderIdle

(***************************************************************************)
(* dispatch_mcp_operation (app/main.py).                                   *)
(***************************************************************************)
\* What dict.get gives for an operation id that is no key of the table.
NoOperation ==
  [requestBody |-> [declared |-> FALSE, ref |-> << >>],
   auth_scheme_name |-> "",
   parameters |-> << >>,
   source_config |-> [type |-> "", steps |-> << >>]]

\* mcp_config.get("operations", {}).get(operation_id)
OperationConfig(operations, operation_id) ==
  IF operation_id \in DOMAIN operations THEN operations[operation_id] ELSE NoOperation

\* A dispatcher without the lookup check.
OperationFoundAlways(op_config) == TRUE

\* `not op_config` is false.
OperationFound(op_config) == op_config # NoOperation

\* A first branch that does not look at params.
SynthesisAttemptedAnyParams(op_config, params, body) ==
  body = None /\ op_config.requestBody.declared

\* The first branch of the body handling: body is None and params and
\* op_config.get('requestBody').
SynthesisAttempted(op_config, params, body) ==
  body = None /\ params # EmptyMap /\ op_config.requestBody.declared

\* The elif branch: body is None and op_config.get('requestBody').
MissingBody(op_config, params, body) ==
  ~SynthesisAttempted(op_config, params, body)
  /\ body = None /\ op_config.requestBody.declared

\* A synthesis that swallows the validation error and leaves the body None.
SynthesizeBodyLenient(mcp_config, op_config, params, body) ==
  LET schema_name == LastSegment(op_config.requestBody.ref)
      built == ValidateModel(mcp_config.schemas, schema_name, params)
  IN  IF Len(op_config.requestBody.ref) = 0
         \/ schema_name \notin create_pydantic_models(mcp_config.schemas).models
         \/ built = Invalid
      THEN [status |-> "ok", body |-> body]
      ELSE [status |-> "ok", body |-> built]

\* The body the first branch leaves: the model built from params when the
\* schema reference resolves to a model, else the body as it was (None).
\* status is "ok", "400" (validation failed) or "RuntimeError" (the models
\* could not be created).
SynthesizeBody(mcp_config, op_config, params, body) ==
  LET request_body_schema_ref == op_config.requestBody.ref
      pydantic_models == create_pydantic_models(mcp_config.schemas)
      schema_name == LastSegment(request_body_schema_ref)
  IN  IF Len(request_body_schema_ref) = 0 THEN [status |-> "ok", body |-> body]
      ELSE IF ~pydantic_models.ok THEN [status |-> "RuntimeError", body |-> body]
      ELSE IF schema_name \notin pydantic_models.models
      THEN [status |-> "ok", body |-> body]
      ELSE LET built == ValidateModel(mcp_config.schemas, schema_name, params)
           IN  IF built = Invalid THEN [status |-> "400", body |-> body]
               ELSE [status |-> "ok", body |-> built]

\* {p['name']: params.get(p['name']) for p in parameters if p['in'] == 'path'}
PathParams(op_config, params) ==
  LET names == {op_config.parameters[k].name :
                  k \in {j \in 1..Len(op_config.parameters) :
                           op_config.parameters[j].in = "path"}}
  IN  [n \in names |-> IF n \in DOMAIN params THEN params[n] ELSE NullV]

\* The context execute_http_steps starts from.
SeedContext(path_params, body) ==
  IF body = None THEN PATH_PARAMS :> MapV(path_params)
  ELSE PATH_PARAMS :> MapV(path_params) @@ INCOMING_REQUEST_BODY :> body

Fail(exc, status, detail, value) ==
  /\ pc' = "done"
  /\ outcome' = Raise(exc, status, detail, value)

\* The dispatcher up to the first await inside execute_http_steps: the
\* lookup, the body handling, the auth scheme and source type, and the
\* executor's prologue (the context seeded, the client opened).
dispatch_mcp_operation(operation_id, params, auth_provider, body) ==
  /\ pc = "idle"
  /\ call' = [operation_id |-> operation_id, params |-> params,
              auth_provider |-> auth_provider, body |-> body]
  /\ IF ~OperationFound(OperationConfig(config.operations, operation_id))
     THEN /\ Fail("HTTPException", 404, "operation not found", NullV)
          /\ UNCHANGED <<auth_scheme, steps, incoming_body, template_data,
                         step_index, client>>
     ELSE
       LET op_config == OperationConfig(config.operations, operation_id)
           synth == IF SynthesisAttempted(op_config, params, body)
                    THEN SynthesizeBody(config, op_config, params, body)
                    ELSE [status |-> "ok", body |-> body]
       IN  IF synth.status = "400"
           THEN /\ Fail("HTTPException", 400, "invalid RPC parameters for body", NullV)
                /\ UNCHANGED <<auth_scheme, steps, incoming_body, template_data,
                               step_index, client>>
           ELSE IF synth.status = "RuntimeError"
           THEN /\ Fail("RuntimeError", 0, "could not resolve dependencies", NullV)
                /\ UNCHANGED <<auth_scheme, steps, incoming_body, template_data,
                               step_index, client>>
           ELSE IF MissingBody(op_config, params, body)
           THEN /\ Fail("HTTPException", 400, "request body is required", NullV)
                /\ UNCHANGED <<auth_scheme, steps, incoming_body, template_data,
                               step_index, client>>
           ELSE IF op_config.source_config.type # "http"
           THEN /\ Fail("HTTPException", 501, "source type not implemented", NullV)
                /\ UNCHANGED <<auth_scheme, steps, incoming_body, template_data,
                               step_index, client>>
           ELSE /\ auth_scheme' =
                     SchemeNamed(config.security_schemes, op_config.auth_scheme_name)
                /\ steps' = op_config.source_config.steps
                /\ incoming_body' = synth.body
                /\ template_data' = SeedContext(PathParams(op_config, params), synth.body)
                /\ step_index' = 1
                /\ client' = "open"
                /\ pc' = "loop"
                /\ UNCHANGED outcome
  /\ UNCHANGED <<config, sent, received, authVars, stdioVars,
                 transportVars, templateVars, builder, tasks>>

Dispatch ==
  \E operation_id \in OperationIds, params \in ParamChoices,
     auth_provider \in ProviderChoices, body \in BodyChoices :
    dispatch_mcp_operation(operation_id, params, auth_provider, body)

(***************************************************************************)
(* execute_http_steps (app/services/http_client.py).                       *)
(***************************************************************************)
\* Python truthiness of a step's body template (step.get("body")).
Truthy(value) ==
  CASE value = None -> FALSE
    [] value.t = "null" -> FALSE
    [] value.t = "bool" -> value.v
    [] value.t = "num" -> value.v # 0
    [] value.t = "str" -> Len(value.v) > 0
    [] value.t = "list" -> Len(value.v) > 0
    [] value.t = "map" -> DOMAIN value.v # {}
    [] OTHER -> TRUE

\* final_body: the body template resolved against the context and pruned,
\* or None when the step has no body template.
FinalBody(step, data) ==
  IF Truthy(step.body)
  THEN _prune_unresolved(_resolve_templates_in_obj(step.body, MapV(data)))
  ELSE None

\* client.build_request(method, url, json=final_body), before auth.
BuildRequest(step, data) ==
  [method |-> upper(step.method),
   url |-> _substitute_templates_in_string(step.url, MapV(data)),
   query |-> [k \in {} |-> << >>],
   headers |-> [k \in {} |-> << >>],
   json |-> FinalBody(step, data)]

\* A raise_for_status that lets redirects through.
IsSuccessBelow400(status) == 200 <= status /\ status <= 399

\* response.raise_for_status() returns: the status is a 2xx.
IsSuccess(status) == 200 <= status /\ status <= 299

\* A step output that is never decoded.
ResponseDataTextOnly(response) == StrV(response.text)

\* response.json() when the content type says JSON, else response.text.
ResponseData(response) ==
  IF response.ctype_json THEN response.parsed ELSE StrV(response.text)

\* template_data[step_id] = response_data
StoreOutput(data, step_id, response_data) ==
  [k \in DOMAIN data \cup {step_id} |-> IF k = step_id THEN response_data ELSE data[k]]

\* steps[0]["step_id"]
FirstStepId(step_list) == step_list[1].step_id

\* steps[-1]["step_id"]
LastStepId(step_list) == step_list[Len(step_list)].step_id

\* Leaving the `async with` block by an exception: the client is closed and
\* the exception propagates out of the dispatch.
Abort(exc, status, detail, value) ==
  /\ client' = "closed"
  /\ Fail(exc, status, detail, value)

\* One iteration of the for loop up to `await client.send(request)`: the
\* step_id check, the request built from the templates, auth applied, the
\* request sent.
IssueStep ==
  /\ pc = "loop"
  /\ step_index <= Len(steps)
  /\ LET step == steps[step_index]
         request == BuildRequest(step, template_data)
         authed == apply_auth(request, auth_scheme, call.auth_provider)
     IN  IF Len(step.step_id) = 0
         THEN /\ Abort("ValueError", 0, "each step must include a step_id", NullV)
              /\ UNCHANGED sent
         ELSE IF request.json = UNSET
         THEN /\ Abort("TypeError", 0, "body is not JSON serializable", NullV)
              /\ UNCHANGED sent
         ELSE IF ~authed.ok
         THEN /\ Abort("ValueError", 0, authed.error, NullV)
              /\ UNCHANGED sent
         ELSE /\ sent' = Append(sent, authed.request)
              /\ pc' = "in_flight"
              /\ UNCHANGED <<client, outcome>>
  /\ UNCHANGED <<config, call, auth_scheme, steps, incoming_body, template_data,
                 step_index, received, authVars, stdioVars,
                 transportVars, templateVars, builder, tasks>>

\* client.send returns a response: raise_for_status, the response parsed
\* and stored under the step's id, and on to the next iteration.
ReceiveResponse ==
  /\ pc = "in_flight"
  /\ \E response \in ResponseChoices :
       /\ received' = Append(received, response)
       /\ IF ~IsSuccess(response.status)
          THEN /\ Abort("HTTPStatusError", response.status, "downstream error",
                        StrV(response.text))
               /\ UNCHANGED <<template_data, step_index>>
          ELSE IF ResponseData(response) = JSONDecodeError
          THEN /\ Abort("JSONDecodeError", 0, "response body is not JSON", NullV)
               /\ UNCHANGED <<template_data, step_index>>
          ELSE /\ template_data' =
                    StoreOutput(template_data, steps[step_index].step_id,
                                ResponseData(response))
               /\ step_index' = step_index + 1
               /\ pc' = "loop"
               /\ UNCHANGED <<client, outcome>>
  /\ UNCHANGED <<config, call, auth_scheme, steps, incoming_body, sent, authVars,
                 stdioVars, transportVars, templateVars, builder, tasks>>

\* client.send raises: the request got no response (connection refused,
\* timeout).
TransportFailure ==
  /\ pc = "in_flight"
  /\ received' = Append(received, NoResponse)
  /\ Abort("TransportError", 0, "no response", NullV)
  /\ UNCHANGED <<config, call, auth_scheme, steps, incoming_body, template_data,
                 step_index, sent, authVars, stdioVars,
                 transportVars, templateVars, builder, tasks>>

\* The loop is over: the client is closed and the last step's output
\* returned (steps[-1] of an empty list raises IndexError).
ReturnLast ==
  /\ pc = "loop"
  /\ step_index > Len(steps)
  /\ client' = "closed"
  /\ pc' = "done"
  /\ outcome' = IF Len(steps) = 0
                THEN Raise("IndexError", 0, "list index out of range", NullV)
                ELSE IF LastStepId(steps) \notin DOMAIN template_data
                THEN Raise("KeyError", 0, "no output under the last step_id", NullV)
                ELSE Return(template_data[LastStepId(steps)])
  /\ UNCHANGED <<config, call, auth_scheme, steps, incoming_body, template_data,
                 step_index, sent, received, authVars, stdioVars,
                 transportVars, templateVars, builder, tasks>>

Next == Dispatch \/ IssueStep \/ ReceiveResponse \/ TransportFailure \/ ReturnLast

Spec == Init /\ [][Next]_vars

(***************************************************************************)
(* apply_auth on its own, over schemes, credential sources and requests.   *)
(***************************************************************************)
ApiKeyNoNameScheme ==
  [present |-> TRUE, type |-> "apiKey", name |-> << >>, in |-> "header", scheme |-> ""]

ApiKeyLowerScheme ==
  [present |-> TRUE, type |-> "apiKey", name |-> <<"x", "-", "k">>, in |-> "header",
   scheme |-> ""]

OAuthScheme ==
  [present |-> TRUE, type |-> "oauth2", name |-> << >>, in |-> "", scheme |-> ""]

SchemeChoices ==
  { NoScheme, ApiKeyHeaderScheme, ApiKeyQueryScheme, ApiKeyLowerScheme,
    ApiKeyNoNameScheme, BearerScheme, BasicScheme, OAuthScheme }

\* The credential sources: inbound Requests (lower-case header names), and
\* the explicit header maps of a non-HTTP transport, whose keys are as the
\* caller wrote them.
AuthProviderChoices ==
  ProviderChoices \cup
  { [kind |-> "Request", headers |-> (<<"x", "-", "k">> :> << >>)],
    [kind |-> "dict",
     headers |-> (<<"x", "-", "k">> :> <<"k", "2">>
                  @@ AUTHORIZATION_LOWER :> <<"B", "a", "s", "i", "c", " ", "q">>)],
    [kind |-> "dict",
     headers |-> (<<"X", "-", "K">> :> <<"k", "3">>
                  @@ AUTHORIZATION :> <<"B", "e", "a", "r", "e", "r", " ", "r">>)],
    [kind |-> "dict", headers |-> [k \in {} |-> << >>]],
    [kind |-> "other", headers |-> [k \in {} |-> << >>]] }

RequestChoices ==
  { BaseRequest,
    [BaseRequest EXCEPT !.method = upper(POST), !.url = <<"/", "b">>,
                        !.query = (<<"q">> :> <<"1">>),
                        !.json = MapV(<<"n">> :> NumV(1))] }

InitAuth ==
  /\ config = CHOOSE c \in Configs : TRUE
  /\ DispatchIdle
  /\ StdioIdle
  /\ TransportIdle
  /\ TemplatesIdle
  /\ TasksIdle
  /\ BuilderIdle
  /\ auth_pc = "ready"
  /\ auth_case \in [request : RequestChoices, scheme : SchemeChoices,
                    provider : AuthProviderChoices]
  /\ auth_result = AuthOk(BaseRequest)

ApplyAuth ==
  /\ auth_pc = "ready"
  /\ auth_result' = apply_auth(auth_case.request, auth_case.scheme, auth_case.provider)
  /\ auth_pc' = "applied"
  /\ UNCHANGED <<auth_case, dispatchVars, stdioVars,
                 transportVars, templateVars, builder, tasks>>

NextAuth == ApplyAuth

SpecAuth == InitAuth /\ [][NextAuth]_vars

(***************************************************************************)
(* run_stdio_mode (run.py).  A line of input is held as what json.loads    *)
(* makes of it: valid is FALSE for a line that is no JSON text, else data  *)
(* is the decoded value.                                                   *)
(***************************************************************************)
METHOD == <<"m", "e", "t", "h", "o", "d">>

ID == <<"i", "d">>

PARAMS == <<"p", "a", "r", "a", "m", "s">>

JsonLine(value) == [valid |-> TRUE, data |-> value]

LineChoices ==
  { [valid |-> FALSE, data |-> NullV],
    JsonLine(ListV(<<NumV(1)>>)),
    JsonLine(MapV(METHOD :> StrV(<<"o", "p">>) @@ ID :> NumV(1)
                  @@ PARAMS :> MapV(EmptyMap))),
    JsonLine(MapV(METHOD :> StrV(<<"n", "o", "p", "e">>) @@ ID :> NumV(2))),
    JsonLine(MapV(METHOD :> StrV(<<"o", "p">>))) }

\* The operations the dispatcher of the stdio loop knows.
StdioOperations == {<<"o", "p">>}

\* dict.get(key): the value, or None.
DictGet(d, key) == IF key \in DOMAIN d.v THEN d.v[key] ELSE None

InitStdio ==
  /\ config = CHOOSE c \in Configs : TRUE
  /\ DispatchIdle
  /\ AuthIdle
  /\ TransportIdle
  /\ TemplatesIdle
  /\ TasksIdle
  /\ BuilderIdle
  /\ stdio_pc = "read"
  /\ stdin \in SeqsUpTo(LineChoices, MaxLines)
  /\ stdin_pos = 0
  /\ request_data = Unbound
  /\ stdout = << >>
  /\ stderr = << >>
  /\ stdio_exc = ""

\* The except block: the error object is built from request_data.get("id")
\* and printed on standard error.  request_data unbound (no line has been
\* decoded yet) or bound to a value that is no dict makes the block itself
\* raise, and that exception leaves the loop.
HandleException(data, detail, line_no) ==
  IF data = Unbound
  THEN /\ stdio_pc' = "exited"
       /\ stdio_exc' = "UnboundLocalError"
       /\ UNCHANGED stderr
  ELSE IF data.t # "map"
  THEN /\ stdio_pc' = "exited"
       /\ stdio_exc' = "AttributeError"
       /\ UNCHANGED stderr
  ELSE /\ stderr' = Append(stderr, [id |-> DictGet(data, ID), kind |-> "error",
                                    line |-> line_no, data |-> detail])
       /\ stdio_pc' = "read"
       /\ UNCHANGED stdio_exc

\* readline returns a line: json.loads, then the arguments of the dispatch
\* are read from request_data and the dispatch is awaited.
StdioReadLine ==
  /\ stdio_pc = "read"
  /\ stdin_pos < Len(stdin)
  /\ stdin_pos' = stdin_pos + 1
  /\ LET line == stdin[stdin_pos + 1]
     IN  IF ~line.valid
         THEN /\ UNCHANGED request_data
              /\ HandleException(request_data, "JSONDecodeError", stdin_pos + 1)
         ELSE /\ request_data' = line.data
              /\ IF line.data.t # "map"
                 THEN HandleException(line.data, "AttributeError", stdin_pos + 1)
                 ELSE /\ stdio_pc' = "await"
                      /\ UNCHANGED <<stderr, stdio_exc>>
  /\ UNCHANGED <<stdin, stdout, dispatchVars, authVars,
                 transportVars, templateVars, builder, tasks>>

\* readline returns "": end of input, break.
StdioEof ==
  /\ stdio_pc = "read"
  /\ stdin_pos = Len(stdin)
  /\ stdio_pc' = "exited"
  /\ UNCHANGED <<stdin, stdin_pos, request_data, stdout, stderr, stdio_exc,
                 dispatchVars, authVars, transportVars, templateVars, builder, tasks>>

\* The awaited dispatch returns: the result object is printed on standard
\* output.
StdioDispatchReturns ==
  /\ stdio_pc = "await"
  /\ DictGet(request_data, METHOD) # None
  /\ DictGet(request_data, METHOD).v \in StdioOperations
  /\ stdout' = Append(stdout, [id |-> DictGet(request_data, ID), kind |-> "result",
                               line |-> stdin_pos, data |-> "result"])
  /\ stdio_pc' = "read"
  /\ UNCHANGED <<stdin, stdin_pos, request_data, stderr, stdio_exc, dispatchVars,
                 authVars, transportVars, templateVars, builder, tasks>>

\* The awaited dispatch raises (operation not found, bad request, auth or
\* upstream error).
StdioDispatchRaises ==
  /\ stdio_pc = "await"
  /\ HandleException(request_data, "dispatch failed", stdin_pos)
  /\ UNCHANGED <<stdin, stdin_pos, request_data, stdout, dispatchVars, authVars,
                 transportVars, templateVars, builder, tasks>>

NextStdio ==
  StdioReadLine \/ StdioEof \/ StdioDispatchReturns \/ StdioDispatchRaises

SpecStdio == InitStdio /\ [][NextStdio]_vars

(***************************************************************************)
(* The HTTP transports of create_app (app/main.py): rpc_endpoint and       *)
(* sse_endpoint.  Both dispatch with no body, the inbound Request being    *)
(* the credential source.                                                  *)
(***************************************************************************)
\* The code of the error envelope.
INTERNAL_ERROR == -32603

\* Step lists of the configurations the transports are run on.
TransportStepLists == {<< >>, <<StepS>>, <<StepS, StepT>>, <<StepNoId>>}

TransportConfigs ==
  { [operations |-> [op |-> HttpOperation(step_list, auth, rb),
                     other |-> OtherOperation],
     security_schemes |-> SecuritySchemes,
     schemas |-> BodySchemas] :
      step_list \in TransportStepLists, auth \in {"", "key"},
      rb \in { [declared |-> FALSE, ref |-> << >>],
               [declared |-> TRUE, ref |-> <<"#", "/", "s", "/", "B">>] } }

\* JsonRpcRequest: method, params and an id that is an int or a str.
RpcRequests ==
  { [kind |-> "rpc", method |-> method, named |-> TRUE, params |-> params, id |-> id,
     provider |-> provider] :
      method \in OperationIds, params \in ParamChoices,
      id \in {NumV(1), StrV(<<"a">>)}, provider \in ProviderChoices }

OP == <<"o", "p">>

\* The text of an operation id, as a query parameter carries it.
OperationIdText(operation_id) ==
  CASE operation_id = "op" -> OP
    [] operation_id = "other" -> <<"o", "t", "h", "e", "r">>
    [] operation_id = "nope" -> <<"n", "o", "p", "e">>
    [] OTHER -> << >>

\* The query parameters of GET /events besides op: all of them strings.
QueryChoices ==
  { EmptyMap,
    <<"i">> :> StrV(<<"5">>),
    <<"i">> :> StrV(<<"5">>) @@ <<"n">> :> StrV(<<"x">>) }

\* GET /events: with op=<id>, params is dict(request.query_params), op
\* included; without op (or with an empty one) no operation is named.
SseRequests ==
  { [kind |-> "sse", method |-> method, named |-> TRUE,
     params |-> (OP :> StrV(OperationIdText(method))) @@ query, id |-> NullV,
     provider |-> provider] :
      method \in OperationIds, query \in QueryChoices, provider \in ProviderChoices }
  \cup
  { [kind |-> "sse", method |-> "", named |-> FALSE, params |-> query, id |-> NullV,
     provider |-> provider] :
      query \in QueryChoices, provider \in ProviderChoices }

InitTransport ==
  /\ config \in TransportConfigs
  /\ DispatchIdle
  /\ AuthIdle
  /\ StdioIdle
  /\ transport_pc = "open"
  /\ inbound \in RpcRequests \cup SseRequests
  /\ reply = NoReply
  /\ events = << >>
  /\ TemplatesIdle
  /\ TasksIdle
  /\ BuilderIdle

\* getattr(e, 'detail', str(e))
ErrorDetail(result) == result.detail

\* An rpc_endpoint whose handler answers a failed dispatch as a success.
rpc_endpoint_swallowing(rpc_request, result) ==
  [status_code |-> 200, id |-> rpc_request.id, kind |-> "result",
   result |-> result.value, code |-> 0, data |-> ""]

\* What rpc_endpoint returns for the dispatch that ended as `result`: the
\* result envelope, or from the except block the JSONResponse 500 with the
\* error envelope.
rpc_endpoint(rpc_request, result) ==
  IF result.kind = "return"
  THEN [status_code |-> 200, id |-> rpc_request.id, kind |-> "result",
        result |-> result.value, code |-> 0, data |-> ""]
  ELSE [status_code |-> 500, id |-> rpc_request.id, kind |-> "error",
        result |-> NullV, code |-> INTERNAL_ERROR, data |-> ErrorDetail(result)]

\* An event generator that yields the message event after the error event.
event_generator_both(op_id, result) ==
  IF result.kind = "return"
  THEN <<[event |-> "message", id |-> op_id, value |-> result.value, data |-> ""]>>
  ELSE <<[event |-> "error", id |-> op_id, value |-> NullV, data |-> ErrorDetail(result)],
         [event |-> "message", id |-> op_id, value |-> NullV, data |-> ""]>>

\* What event_generator yields for the dispatch that ended as `result`.
event_generator(op_id, result) ==
  IF result.kind = "return"
  THEN <<[event |-> "message", id |-> op_id, value |-> result.value, data |-> ""]>>
  ELSE <<[event |-> "error", id |-> op_id, value |-> NullV, data |-> ErrorDetail(result)]>>

\* rpc_endpoint up to its await: the dispatch of rpc_request.method.
RpcDispatch ==
  /\ transport_pc = "open"
  /\ inbound.kind = "rpc"
  /\ dispatch_mcp_operation(inbound.method, inbound.params, inbound.provider, None)

\* The awaited dispatch is over: rpc_endpoint returns its response.
RpcRespond ==
  /\ transport_pc = "open"
  /\ inbound.kind = "rpc"
  /\ pc = "done"
  /\ reply' = rpc_endpoint(inbound, outcome)
  /\ transport_pc' = "closed"
  /\ UNCHANGED <<inbound, events, dispatchVars, authVars, stdioVars, templateVars,
                 builder, tasks>>

\* event_generator up to its await: op names an operation and it is
\* dispatched.
SseDispatch ==
  /\ transport_pc = "open"
  /\ inbound.kind = "sse"
  /\ inbound.named
  /\ dispatch_mcp_operation(inbound.method, inbound.params, inbound.provider, None)

\* The awaited dispatch is over: event_generator yields its event.
SseEmit ==
  /\ transport_pc = "open"
  /\ inbound.kind = "sse"
  /\ pc = "done"
  /\ events' = events \o event_generator(inbound.method, outcome)
  /\ transport_pc' = "emitted"
  /\ UNCHANGED <<inbound, reply, dispatchVars, authVars, stdioVars, templateVars,
                 builder, tasks>>

\* event_generator returns, after its yield or because no op was given:
\* the stream ends.
SseEnd ==
  /\ inbound.kind = "sse"
  /\ \/ transport_pc = "emitted"
     \/ transport_pc = "open" /\ ~inbound.named
  /\ transport_pc' = "closed"
  /\ UNCHANGED <<inbound, reply, events, dispatchVars, authVars, stdioVars,
                 templateVars, builder, tasks>>

NextTransport ==
  \/ RpcDispatch \/ RpcRespond \/ SseDispatch \/ SseEmit \/ SseEnd
  \/ IssueStep \/ ReceiveResponse \/ TransportFailure \/ ReturnLast

SpecTransport == InitTransport /\ [][NextTransport]_vars

(***************************************************************************)
(* The template helpers of http_client.py applied on their own, each to    *)
(* one input.                                                              *)
(***************************************************************************)
\* An execution context with a value of every type.
TemplateContext ==
  MapV(<<"a">> :> StrV(<<"v">>)
       @@ <<"b">> :> NumV(2)
       @@ <<"t">> :> BoolV(TRUE)
       @@ <<"f">> :> BoolV(FALSE)
       @@ <<"z">> :> NullV
       @@ <<"l">> :> ListV(<<NumV(1), NumV(2)>>)
       @@ <<"m">> :> MapV(<<"k">> :> StrV(<<"a", "b", "c">>)))

\* Paths that match the shape of the context.
MatchingPaths ==
  { <<"a">>, <<"b">>, <<"t">>, <<"f">>, <<"z">>, <<"l">>, <<"m">>,
    <<"m", ".", "k">>, <<"l", "[", "0", "]">>, <<"l", ".", "1">> }

\* Paths that do not: an absent key, an index out of range, a key into a
\* scalar, an index into a number and into a map, an index into a string.
MismatchingPaths ==
  { <<"q">>, <<"m", ".", "q">>, <<"l", "[", "5", "]">>, <<"a", ".", "k">>,
    <<"b", "[", "0", "]">>, <<"m", "[", "0", "]">>, <<"a", "[", "0", "]">>,
    <<"m", ".", "k", ".", "1">> }

TemplatePaths == MatchingPaths \cup MismatchingPaths

\* Body templates: a string that is one placeholder, one with a placeholder
\* inside, one made of two placeholders, and maps and lists of them.
TemplateObjects ==
  { StrV(Placeholder(path)) : path \in TemplatePaths }
  \cup { StrV(<<"x">> \o Placeholder(path) \o <<"y">>) : path \in TemplatePaths }
  \cup { StrV(<<"$", "{", " ">> \o path \o <<" ", "}">>) : path \in {<<"t">>, <<"l">>} }
  \cup { MapV(<<"g">> :> StrV(Placeholder(p1) \o Placeholder(p2))) :
           p1 \in {<<"a">>, <<"b">>}, p2 \in {<<"b">>, <<"m", ".", "k">>} }
  \cup { MapV(<<"a">> :> StrV(Placeholder(<<"u">>)) @@ <<"b">> :> NumV(1)),
         ListV(<<StrV(Placeholder(<<"u">>)), NumV(2)>>),
         ListV(<<NumV(1), StrV(<<"x">> \o Placeholder(<<"u">>) \o <<"y">>), NumV(2),
                 StrV(<<"$", "{", "x">>), BoolV(TRUE), NullV>>),
         MapV(<<"a">> :> MapV(<<"b">> :> StrV(Placeholder(<<"u">>)))
              @@ <<"e">> :> ListV(<<StrV(Placeholder(<<"u">>))>>)
              @@ <<"i">> :> ListV(<<MapV(<<"n">> :> StrV(Placeholder(<<"u">>))
                                        @@ <<"s">> :> StrV(<<"k">>))>>)),
         MapV(<<"a">> :> StrV(Placeholder(<<"t">>)) @@ <<"b">> :> StrV(<<"w">>)),
         NumV(4), StrV(<<"w">>), MapV(EmptyMap), ListV(<< >>) }

InitTemplates ==
  /\ config = CHOOSE c \in Configs : TRUE
  /\ DispatchIdle
  /\ AuthIdle
  /\ StdioIdle
  /\ TransportIdle
  /\ TasksIdle
  /\ BuilderIdle
  /\ tpl_pc = "ready"
  /\ tpl_case \in
       [fn : {"_resolve_value"}, path : TemplatePaths, obj : {None},
        data : {TemplateContext}]
       \cup [fn : {"_resolve_templates_in_obj", "_prune_unresolved", "final_body"},
             path : {<< >>}, obj : TemplateObjects, data : {TemplateContext}]
  /\ tpl_result = None

TemplateApplied ==
  /\ tpl_pc' = "done"
  /\ UNCHANGED <<tpl_case, dispatchVars, authVars, stdioVars, transportVars, tasks,
                 builder>>

ResolveValue ==
  /\ tpl_pc = "ready"
  /\ tpl_case.fn = "_resolve_value"
  /\ tpl_result' = _resolve_value(tpl_case.path, tpl_case.data)
  /\ TemplateApplied

ResolveTemplates ==
  /\ tpl_pc = "ready"
  /\ tpl_case.fn = "_resolve_templates_in_obj"
  /\ tpl_result' = _resolve_templates_in_obj(tpl_case.obj, tpl_case.data)
  /\ TemplateApplied

PruneUnresolved ==
  /\ tpl_pc = "ready"
  /\ tpl_case.fn = "_prune_unresolved"
  /\ tpl_result' = _prune_unresolved(tpl_case.obj)
  /\ TemplateApplied

\* The body of a step whose template is obj: resolved, then pruned.
ResolveBody ==
  /\ tpl_pc = "ready"
  /\ tpl_case.fn = "final_body"
  /\ tpl_result' = FinalBody([body |-> tpl_case.obj], tpl_case.data.v)
  /\ TemplateApplied

NextTemplates == ResolveValue \/ ResolveTemplates \/ PruneUnresolved \/ ResolveBody

SpecTemplates == InitTemplates /\ [][NextTemplates]_vars

(***************************************************************************)
(* Concurrent dispatches.  Each inbound call runs dispatch_mcp_operation   *)
(* and execute_http_steps as a task of its own on the event loop; the      *)
(* tasks interleave at the awaits.  tasks[i] holds the locals of task i's  *)
(* frames; config is the one object get_mcp_config() returns to all.       *)
(***************************************************************************)
TaskIds == 1..MaxTasks

\* A task slot with no call in it.
IdleTask ==
  [pc |-> "idle", params |-> EmptyMap, body |-> None, template_data |-> EmptyMap,
   step_index |-> 0, sent |-> << >>, received |-> << >>, outcome |-> Pending]

\* The configuration the concurrent calls share: the operation op of two
\* chained steps, with no auth scheme and no declared request body.
ConcurrentConfigs ==
  { [operations |->
       [op |-> HttpOperation(<<StepS, StepT>>, "", [declared |-> FALSE, ref |-> << >>]),
        other |-> OtherOperation],
     security_schemes |-> SecuritySchemes,
     schemas |-> BodySchemas] }

ConcurrentParams == {<<"i">> :> StrV(<<"5">>), <<"i">> :> StrV(<<"6">>)}

ConcurrentResponses ==
  { JsonResponse(200, MapV(<<"i">> :> NumV(7))),
    JsonResponse(201, MapV(<<"i">> :> StrV(<<"p">>))),
    JsonResponse(500, MapV(<<"e">> :> NumV(1))) }

InitConcurrent ==
  /\ config \in ConcurrentConfigs
  /\ DispatchIdle
  /\ AuthIdle
  /\ StdioIdle
  /\ TransportIdle
  /\ TemplatesIdle
  /\ BuilderIdle
  /\ tasks = [i \in TaskIds |-> IdleTask]

\* The steps every task reads from the shared configuration.
SharedSteps == config.operations.op.source_config.steps

TaskUpdate(i, task) ==
  /\ tasks' = [tasks EXCEPT ![i] = task]
  /\ UNCHANGED <<dispatchVars, authVars, stdioVars, transportVars, templateVars,
                 builder>>

\* An executor whose context is one dict all tasks write to.
StoreInEveryTask(all_tasks, i, step_id, response_data) ==
  [j \in DOMAIN all_tasks |->
     IF j = i
     THEN [all_tasks[j] EXCEPT
             !.template_data = StoreOutput(all_tasks[j].template_data, step_id,
                                           response_data),
             !.step_index = @ + 1,
             !.pc = "loop"]
     ELSE [all_tasks[j] EXCEPT
             !.template_data =
               IF all_tasks[j].pc = "idle" THEN @
               ELSE StoreOutput(all_tasks[j].template_data, step_id, response_data)]]

\* template_data[step_id] = response_data, template_data being the local of
\* task i's call of execute_http_steps.
StoreInTask(all_tasks, i, step_id, response_data) ==
  [all_tasks EXCEPT
     ![i].template_data = StoreOutput(all_tasks[i].template_data, step_id,
                                      response_data),
     ![i].step_index = @ + 1,
     ![i].pc = "loop"]

\* A call of operation op arrives and runs up to the top of the loop.
TaskDispatch(i) ==
  /\ tasks[i].pc = "idle"
  /\ \E params \in ConcurrentParams, body \in BodyChoices :
       TaskUpdate(i, [IdleTask EXCEPT
                        !.pc = "loop",
                        !.params = params,
                        !.body = body,
                        !.template_data =
                          SeedContext(PathParams(config.operations.op, params), body),
                        !.step_index = 1])

\* One iteration of task i's loop up to `await client.send(request)`.
TaskIssueStep(i) ==
  /\ tasks[i].pc = "loop"
  /\ tasks[i].step_index <= Len(SharedSteps)
  /\ TaskUpdate(i, [tasks[i] EXCEPT
                      !.sent = Append(@, BuildRequest(SharedSteps[tasks[i].step_index],
                                                      tasks[i].template_data)),
                      !.pc = "in_flight"])

\* Task i's send returns a response.
TaskReceiveResponse(i) ==
  /\ tasks[i].pc = "in_flight"
  /\ \E response \in ConcurrentResponses :
       LET got == [tasks EXCEPT ![i].received = Append(@, response)]
       IN  /\ tasks' =
                IF ~IsSuccess(response.status)
                THEN [got EXCEPT
                        ![i].pc = "done",
                        ![i].outcome = Raise("HTTPStatusError", response.status,
                                             "downstream error", StrV(response.text))]
                ELSE StoreInTask(got, i, SharedSteps[tasks[i].step_index].step_id,
                                 ResponseData(response))
           /\ UNCHANGED <<dispatchVars, authVars, stdioVars, transportVars,
                          templateVars, builder>>

\* Task i's loop is over: the last step's output is returned.
TaskReturnLast(i) ==
  /\ tasks[i].pc = "loop"
  /\ tasks[i].step_index > Len(SharedSteps)
  /\ TaskUpdate(i, [tasks[i] EXCEPT
                      !.pc = "done",
                      !.outcome = Return(tasks[i].template_data[LastStepId(SharedSteps)])])

\* Task i has ended and its frames are gone; the slot is free for the next
\* call.
TaskEnd(i) ==
  /\ tasks[i].pc = "done"
  /\ TaskUpdate(i, IdleTask)

NextConcurrent ==
  \E i \in TaskIds :
    \/ TaskDispatch(i)
    \/ TaskIssueStep(i)
    \/ TaskReceiveResponse(i)
    \/ TaskReturnLast(i)
    \/ TaskEnd(i)

SpecConcurrent == InitConcurrent /\ [][NextConcurrent]_vars

(***************************************************************************)
(* The outbound client of each invocation of execute_http_steps.  Every    *)
(* invocation opens an httpx.AsyncClient of its own with `async with` and  *)
(* leaves the block by the return or by an exception.  tasks[i] holds the  *)
(* locals of invocation i; the invocations interleave at the awaits.       *)
(***************************************************************************)
\* A step whose step_id is the name of the reserved key path_params.
StepP ==
  [step_id |-> PATH_PARAMS, method |-> GET, url |-> <<"/", "p">>, body |-> None]

\* The step lists whose invocations leave the block by each of its exits,
\* each of pairwise distinct step_ids.
ClientStepLists ==
  {<< >>, <<StepS, StepT>>, <<StepNoId>>, <<StepS, StepNoId>>, <<StepU>>,
   <<StepP, StepS>>}

ClientConfigs ==
  { [operations |->
       [op |-> HttpOperation(step_list, auth, [declared |-> FALSE, ref |-> << >>]),
        other |-> OtherOperation],
     security_schemes |-> SecuritySchemes,
     schemas |-> BodySchemas] :
      step_list \in ClientStepLists, auth \in {"", "bearer"} }

ClientResponses ==
  { JsonResponse(200, MapV(<<"i">> :> NumV(7))),
    JsonResponse(500, MapV(<<"e">> :> NumV(1))),
    MalformedResponse }

\* A task slot with no invocation in it.
IdleInvocation ==
  [pc |-> "idle", client |-> "none", auth_provider |-> NoCall.auth_provider,
   template_data |-> EmptyMap, step_index |-> 0, sent |-> << >>, received |-> << >>,
   outcome |-> Pending]

InitClients ==
  /\ config \in ClientConfigs
  /\ DispatchIdle
  /\ AuthIdle
  /\ StdioIdle
  /\ TransportIdle
  /\ TemplatesIdle
  /\ BuilderIdle
  /\ tasks = [i \in TaskIds |-> IdleInvocation]

\* The auth scheme every invocation is handed.
SharedScheme ==
  SchemeNamed(config.security_schemes, config.operations.op.auth_scheme_name)

\* One client, made once for the process, that the first invocation to end
\* closes under all the others.
CloseEveryClient(all_tasks, i) ==
  [j \in DOMAIN all_tasks |->
     [all_tasks[j] EXCEPT !.client = IF @ = "open" THEN "closed" ELSE @]]

\* Leaving `async with httpx.AsyncClient() as client`: the client the
\* invocation i made on entering the block is closed.
CloseClient(all_tasks, i) == [all_tasks EXCEPT ![i].client = "closed"]

\* An exception leaves invocation i's block and propagates out of it.
InvocationRaises(all_tasks, i, exc, status, detail, value) ==
  [CloseClient(all_tasks, i) EXCEPT
     ![i].pc = "done",
     ![i].outcome = Raise(exc, status, detail, value)]

\* An invocation starts and runs up to the top of the loop: the context
\* seeded, the client made and the block entered.
EnterExecutor(i) ==
  /\ tasks[i].pc = "idle"
  /\ \E auth_provider \in ProviderChoices :
       TaskUpdate(i, [IdleInvocation EXCEPT
                        !.pc = "loop",
                        !.client = "open",
                        !.auth_provider = auth_provider,
                        !.template_data =
                          SeedContext(PathParams(config.operations.op,
                                                 <<"i">> :> StrV(<<"5">>)), None),
                        !.step_index = 1])

\* One iteration of invocation i's loop up to `await client.send(request)`.
InvocationIssueStep(i) ==
  /\ tasks[i].pc = "loop"
  /\ tasks[i].step_index <= Len(SharedSteps)
  /\ LET step == SharedSteps[tasks[i].step_index]
         request == BuildRequest(step, tasks[i].template_data)
         authed == apply_auth(request, SharedScheme, tasks[i].auth_provider)
     IN  tasks' =
           IF Len(step.step_id) = 0
           THEN InvocationRaises(tasks, i, "ValueError", 0,
                                 "each step must include a step_id", NullV)
           ELSE IF request.json = UNSET
           THEN InvocationRaises(tasks, i, "TypeError", 0,
                                 "body is not JSON serializable", NullV)
           ELSE IF ~authed.ok
           THEN InvocationRaises(tasks, i, "ValueError", 0, authed.error, NullV)
           ELSE [tasks EXCEPT ![i].sent = Append(@, authed.request),
                              ![i].pc = "in_flight"]
  /\ UNCHANGED <<dispatchVars, authVars, stdioVars, transportVars, templateVars,
                 builder>>

\* Invocation i's send returns a response.
InvocationReceiveResponse(i) ==
  /\ tasks[i].pc = "in_flight"
  /\ \E response \in ClientResponses :
       LET got == [tasks EXCEPT ![i].received = Append(@, response)]
       IN  tasks' =
             IF ~IsSuccess(response.status)
             THEN InvocationRaises(got, i, "HTTPStatusError", response.status,
                                   "downstream error", StrV(response.text))
             ELSE IF ResponseData(response) = JSONDecodeError
             THEN InvocationRaises(got, i, "JSONDecodeError", 0,
                                   "response body is not JSON", NullV)
             ELSE StoreInTask(got, i, SharedSteps[tasks[i].step_index].step_id,
                              ResponseData(response))
  /\ UNCHANGED <<dispatchVars, authVars, stdioVars, transportVars, templateVars,
                 builder>>

\* Invocation i's send raises: the request got no response.
InvocationTransportFailure(i) ==
  /\ tasks[i].pc = "in_flight"
  /\ tasks' = InvocationRaises([tasks EXCEPT ![i].received = Append(@, NoResponse)],
                               i, "TransportError", 0, "no response", NullV)
  /\ UNCHANGED <<dispatchVars, authVars, stdioVars, transportVars, templateVars,
                 builder>>

\* Invocation i's loop is over: the block is left, the client closed, and
\* the last step's output returned (steps[-1] of an empty list raises).
InvocationReturnLast(i) ==
  /\ tasks[i].pc = "loop"
  /\ tasks[i].step_index > Len(SharedSteps)
  /\ tasks' =
       [CloseClient(tasks, i) EXCEPT
          ![i].pc = "done",
          ![i].outcome =
            IF Len(SharedSteps) = 0
            THEN Raise("IndexError", 0, "list index out of range", NullV)
            ELSE Return(tasks[i].template_data[LastStepId(SharedSteps)])]
  /\ UNCHANGED <<dispatchVars, authVars, stdioVars, transportVars, templateVars,
                 builder>>

\* Invocation i has ended and its frames are gone; the slot is free for the
\* next invocation, which makes a client of its own.
InvocationEnd(i) ==
  /\ tasks[i].pc = "done"
  /\ TaskUpdate(i, IdleInvocation)

NextClients ==
  \E i \in TaskIds :
    \/ EnterExecutor(i)
    \/ InvocationIssueStep(i)
    \/ InvocationReceiveResponse(i)
    \/ InvocationTransportFailure(i)
    \/ InvocationReturnLast(i)
    \/ InvocationEnd(i)

SpecClients == InitClients /\ [][NextClients]_vars

(***************************************************************************)
(* create_pydantic_models on its own (app/core/dynamic_models.py), one     *)
(* pass of its while loop at a time, over schema tables whose schemas      *)
(* refer to each other, to themselves and to schemas the table lacks.      *)
(***************************************************************************)
NameLetters == <<"A", "B", "C", "D", "E", "F">>

\* The k-th key of components.schemas.
SchemaName(k) == <<NameLetters[k]>>

\* A name no table has a schema for.
MissingName == <<"Z">>

\* The '$ref' text that names a schema.
RefTo(name) == <<"#", "/", "s", "/">> \o name

\* The sets of schemas one schema of a table of n refers to: at most two
\* among the table's own and the missing one.
RefChoices(n) ==
  {refs \in SUBSET ({SchemaName(k) : k \in 1..n} \cup {MissingName}) :
     Cardinality(refs) <= 2}

\* A schema with a string property n and one '$ref' property for each of
\* refs.
SchemaOf(name, refs) ==
  [name |-> name,
   properties |->
     [prop \in {<<"n">>} \cup {<<"r">> \o r : r \in refs} |->
        IF prop = <<"n">> THEN [type |-> "string", ref |-> << >>]
        ELSE [type |-> "", ref |-> RefTo(Tail(prop))]],
   required |-> {<<"n">>}]

SchemaTables ==
  UNION { { [k \in 1..n |-> SchemaOf(SchemaName(k), refs_of[k])] :
              refs_of \in [1..n -> RefChoices(n)] } :
          n \in 0..MaxSchemas }

\* list(schemas.keys())
SchemaKeys(schemas) == [k \in 1..Len(schemas) |-> schemas[k].name]

InitModels ==
  /\ config \in {[(CHOOSE c \in ConcurrentConfigs : TRUE) EXCEPT !.schemas = table] :
                   table \in SchemaTables}
  /\ DispatchIdle
  /\ AuthIdle
  /\ StdioIdle
  /\ TransportIdle
  /\ TemplatesIdle
  /\ TasksIdle
  /\ builder = [pc |-> "loop", schemas_to_process |-> SchemaKeys(config.schemas),
                model_cache |-> {}, passes |-> 0]

\* A loop without the check for a pass that made no progress.
NoProgressNever(processed_this_pass, schemas_to_process) == FALSE

\* `not processed_this_pass and schemas_to_process`
NoProgress(processed_this_pass, schemas_to_process) ==
  processed_this_pass = {} /\ Len(schemas_to_process) > 0

\* The test of the while loop, max_passes being len(schemas) + 1.
LoopContinues ==
  /\ Len(builder.schemas_to_process) > 0
  /\ builder.passes < Len(config.schemas) + 1

\* One pass of the while loop: the models whose dependencies are met are
\* created; a pass that created none raises RuntimeError.
BuilderPass ==
  /\ builder.pc = "loop"
  /\ LoopContinues
  /\ LET r == ProcessPass(builder.schemas_to_process, config.schemas,
                          builder.model_cache, {})
     IN  builder' =
           IF NoProgress(r.processed_this_pass, builder.schemas_to_process)
           THEN [builder EXCEPT !.pc = "raised"]
           ELSE [builder EXCEPT
                   !.schemas_to_process =
                     SelectSeq(@, LAMBDA s : s \notin r.processed_this_pass),
                   !.model_cache = r.model_cache,
                   !.passes = @ + 1]
  /\ UNCHANGED <<dispatchVars, authVars, stdioVars, transportVars, templateVars, tasks>>

\* The loop is left and model_cache returned.
BuilderReturn ==
  /\ builder.pc = "loop"
  /\ ~LoopContinues
  /\ builder' = [builder EXCEPT !.pc = "returned"]
  /\ UNCHANGED <<dispatchVars, authVars, stdioVars, transportVars, templateVars, tasks>>

NextModels == BuilderPass \/ BuilderReturn

\* The call is a synchronous function: once entered, it runs on.
SpecModels == InitModels /\ [][NextModels]_vars /\ WF_vars(NextModels)

(***************************************************************************)
(* Properties of the step executor and the dispatcher.                     *)
(***************************************************************************)
\* The executor has been entered by the dispatch of an http operation.
InExecutor == client # "none"

\* A response that raise_for_status lets through.
Is2xx(response) == response.status \in 200..299

\* What the executor keeps of a 2xx response.
ParsedOf(response) ==
  IF response.ctype_json THEN response.parsed ELSE StrV(response.text)

\* C1: a step's request is issued only when every earlier request has been
\* answered and the preceding step's parsed response is stored in the
\* context under that step's step_id; at most one request of the invocation
\* is in flight at any time; and the request issued for step t after step s
\* carries, in place of ${s.i}, the text of the field i that s returned.
C1_StepsInOrder ==
  /\ [](Len(sent) - Len(received) \in {0, 1})
  /\ [][sent' # sent =>
          /\ Len(received) = Len(sent)
          /\ Len(sent') = Len(sent) + 1
          /\ Len(sent) >= 1 =>
               LET prev == steps[Len(sent)]
                   cur == steps[Len(sent) + 1]
                   response == received[Len(sent)]
                   request == sent'[Len(sent) + 1]
               IN  /\ Is2xx(response)
                   /\ prev.step_id \in DOMAIN template_data
                   /\ template_data[prev.step_id] = ParsedOf(response)
                   /\ (cur = StepT /\ prev = StepS
                       /\ response = JsonResponse(200, MapV(<<"i">> :> NumV(7))))
                        => request.url = <<"/", "b", "/", "7">>
                   /\ (cur = StepT /\ prev = StepS
                       /\ response = JsonResponse(201, MapV(<<"i">> :> StrV(<<"p">>))))
                        => request.url = <<"/", "b", "/", "p">>
     ]_vars

\* C1's case: step t's request has been issued after step s returned i = 7.
C1_Witness ==
  /\ steps = <<StepS, StepT>>
  /\ Len(sent) = 2
  /\ received[1] = JsonResponse(200, MapV(<<"i">> :> NumV(7)))
  /\ sent[2].url = <<"/", "b", "/", "7">>

\* C2: a non-2xx response to a step ends the invocation at once with the
\* status error, which carries the response's status and body; the step's
\* output is not stored, no request (of this or a later step) follows, and
\* nothing is returned.
C2_NonSuccessAborts ==
  /\ [][(received' # received
         /\ received'[Len(received')].status # 0
         /\ received'[Len(received')].status \notin 200..299) =>
          LET response == received'[Len(received')]
          IN  /\ pc' = "done"
              /\ client' = "closed"
              /\ outcome' = Raise("HTTPStatusError", response.status,
                                  "downstream error", StrV(response.text))
              /\ template_data' = template_data
              /\ sent' = sent
     ]_vars
  /\ [][outcome.exc # "HTTPStatusError"]_vars

\* C2's case: the first of two steps got a 500 and the invocation is over.
C2_Witness ==
  /\ Len(steps) = 2
  /\ Len(sent) = 1
  /\ received = <<JsonResponse(500, MapV(<<"e">> :> NumV(1)))>>
  /\ outcome.exc = "HTTPStatusError"
  /\ outcome.status = 500

\* C3: the dispatch of an http operation whose steps all got 2xx responses
\* (with bodies that decode) returns the parsed response of the last step
\* of the list.
C3_ReturnsLastStepOutput ==
  (/\ pc = "done"
   /\ InExecutor
   /\ Len(steps) >= 1
   /\ Len(received) = Len(steps)
   /\ \A k \in 1..Len(received) :
        Is2xx(received[k]) /\ ParsedOf(received[k]) # JSONDecodeError)
    => outcome = Return(ParsedOf(received[Len(steps)]))

\* C3's case: two steps with different outputs, and the dispatch returned.
C3_Witness ==
  /\ pc = "done"
  /\ steps = <<StepS, StepT>>
  /\ Len(received) = 2
  /\ received[1] # received[2]
  /\ outcome.kind = "return"

\* C4: the dispatch of an operation id that is no key of the operations
\* table ends with the 404 HTTPException, the executor not entered and no
\* request sent.
C4_UnknownOperation ==
  (pc # "idle" /\ call.operation_id \notin DOMAIN config.operations)
    => /\ pc = "done"
       /\ outcome = Raise("HTTPException", 404, "operation not found", NullV)
       /\ client = "none"
       /\ sent = << >>

\* C4's case: an unknown id dispatched with params, a body and credentials.
C4_Witness ==
  /\ pc = "done"
  /\ call.operation_id = "nope"
  /\ call.params # EmptyMap
  /\ call.body # None
  /\ call.auth_provider.headers # [k \in {} |-> << >>]
  /\ outcome.status = 404

\* The executor runs a non-empty step list under a scheme that needs a
\* credential (api-key, http bearer or basic), and the credential source
\* holds none.
CredentialMissing ==
  /\ InExecutor
  /\ Len(steps) >= 1
  /\ auth_scheme.present
  /\ \/ auth_scheme.type = "apiKey"
     \/ auth_scheme.type = "http" /\ auth_scheme.scheme \in {"bearer", "basic"}
  /\ call.auth_provider.headers = [k \in {} |-> << >>]

AuthErrorDetails ==
  {"apiKey is missing a name", "required auth key not found",
   "Authorization header not found"}

\* C5 as stated: with the required credential missing, the invocation fails
\* with an auth error and has sent no request.
C5_AuthErrorBeforeAnyRequest ==
  CredentialMissing
    => /\ sent = << >>
       /\ pc = "done" =>
            /\ outcome.kind = "raise"
            /\ outcome.exc = "ValueError"
            /\ outcome.detail \in AuthErrorDetails

\* C5, amended: with the required credential missing, the invocation sends
\* no request and fails: with the auth error when the first step has a
\* step_id and a body that can be serialised, and else with the error of
\* that step (no step_id, or a body that is an unresolved placeholder),
\* which is raised before auth is applied.
C5_NoRequestWithoutCredential ==
  CredentialMissing
    => /\ sent = << >>
       /\ pc # "in_flight"
       /\ pc = "done" =>
            /\ outcome.kind = "raise"
            /\ IF Len(steps[1].step_id) = 0
               THEN outcome.exc = "ValueError"
                    /\ outcome.detail = "each step must include a step_id"
               ELSE IF steps[1] = StepU
               THEN outcome.exc = "TypeError"
               ELSE outcome.exc = "ValueError" /\ outcome.detail \in AuthErrorDetails

\* C5's case: a bearer scheme, no Authorization header, and the invocation
\* over two well-formed steps has failed.
C5_Witness ==
  /\ CredentialMissing
  /\ pc = "done"
  /\ steps = <<StepS, StepT>>
  /\ auth_scheme = BearerScheme
  /\ outcome.detail = "Authorization header not found"

\* C6 as stated: an invocation whose step list holds a step without
\* step_id, at any position, fails before it has sent any request.
C6_MissingStepIdBeforeAnyRequest ==
  (InExecutor /\ \E k \in 1..Len(steps) : Len(steps[k].step_id) = 0)
    => sent = << >>

\* The call has no body and the operation declares a request body.
BodyRequiredAndAbsent ==
  /\ pc # "idle"
  /\ call.operation_id = "op"
  /\ call.body = None
  /\ config.operations.op.requestBody.declared

\* C7: with no body, a declared request body and empty params, the dispatch
\* fails with the 400 of the missing-body check (not that of a synthesis),
\* the executor not entered and no request sent.
C7_EmptyParamsMissingBody ==
  (BodyRequiredAndAbsent /\ call.params = EmptyMap)
    => /\ pc = "done"
       /\ outcome = Raise("HTTPException", 400, "request body is required", NullV)
       /\ incoming_body = None
       /\ client = "none"
       /\ sent = << >>

\* C7's case: the body schema is resolvable, and still nothing is synthesized.
C7_Witness ==
  /\ BodyRequiredAndAbsent
  /\ call.params = EmptyMap
  /\ config.operations.op.requestBody.ref = <<"#", "/", "s", "/", "B">>
  /\ outcome.status = 400

\* C8: with no body, a declared request body whose schema B is resolvable
\* and non-empty params, either the body built from params is the
\* executor's incoming_request_body, or the dispatch has failed with the
\* 400 of the synthesis, the executor not entered and no request sent.
\* B requires the string n and has the optional integer i.
C8_BodySynthesizedFromParams ==
  (/\ BodyRequiredAndAbsent
   /\ call.params # EmptyMap
   /\ config.operations.op.requestBody.ref = <<"#", "/", "s", "/", "B">>)
    => IF <<"n">> \in DOMAIN call.params /\ call.params[<<"n">>].t = "str"
       THEN /\ InExecutor
            /\ incoming_body # None
            /\ incoming_body.v[<<"n">>] = call.params[<<"n">>]
            /\ DOMAIN incoming_body.v = DOMAIN call.params \cap {<<"n">>, <<"i">>}
            /\ INCOMING_REQUEST_BODY \in DOMAIN template_data
            /\ template_data[INCOMING_REQUEST_BODY] = incoming_body
       ELSE /\ pc = "done"
            /\ outcome = Raise("HTTPException", 400,
                               "invalid RPC parameters for body", NullV)
            /\ client = "none"
            /\ sent = << >>

\* C8's case: the body synthesized from params {i, n} has reached step t's
\* body template through ${incoming_request_body.n}.
C8_Witness ==
  /\ BodyRequiredAndAbsent
  /\ DOMAIN call.params = {<<"i">>, <<"n">>}
  /\ steps = <<StepS, StepT>>
  /\ Len(sent) = 2
  /\ incoming_body = MapV(<<"i">> :> NumV(5) @@ <<"n">> :> StrV(<<"x">>))
  /\ <<"n">> \in DOMAIN sent[2].json.v
  /\ sent[2].json.v[<<"n">>] = StrV(<<"x">>)

(***************************************************************************)
(* Properties of the auth injector.                                        *)
(***************************************************************************)
\* The credentials the source holds under a name, whatever the case of the
\* letters of the name.
CredentialsUnder(provider, name) ==
  IF provider.kind \in {"Request", "dict"}
  THEN {provider.headers[k] :
          k \in {h \in DOMAIN provider.headers :
                   lower(h) = lower(name) /\ Len(provider.headers[h]) > 0}}
  ELSE {}

\* C9 as stated: the credential the source holds under scheme.name (or
\* under Authorization for http bearer and basic), looked up without regard
\* to case, is written unchanged to the declared place of the outgoing
\* request.
C9_CredentialCopiedVerbatim ==
  auth_pc = "applied" =>
    LET scheme == auth_case.scheme
        out == auth_result.request
    IN  /\ (scheme.present /\ scheme.type = "apiKey" /\ Len(scheme.name) > 0) =>
             \A credential \in CredentialsUnder(auth_case.provider, scheme.name) :
               /\ auth_result.ok
               /\ scheme.in = "header" =>
                    /\ scheme.name \in DOMAIN out.headers
                    /\ out.headers[scheme.name] = credential
               /\ scheme.in = "query" =>
                    /\ scheme.name \in DOMAIN out.query
                    /\ out.query[scheme.name] = credential
        /\ (scheme.present /\ scheme.type = "http"
            /\ scheme.scheme \in {"bearer", "basic"}) =>
             \A credential \in CredentialsUnder(auth_case.provider, AUTHORIZATION) :
               /\ auth_result.ok
               /\ AUTHORIZATION \in DOMAIN out.headers
               /\ out.headers[AUTHORIZATION] = credential

(***************************************************************************)
(* Properties of the stdio loop.                                           *)
(***************************************************************************)
\* C10 as stated: no line of input ends the loop; it ends only at the end
\* of input, and every line read before has been answered, a malformed or
\* failing one with an error object.
C10_LoopSurvivesBadLines ==
  /\ stdio_exc = ""
  /\ stdio_pc = "exited" => stdin_pos = Len(stdin)
  /\ stdio_pc \in {"read", "exited"} => Len(stdout) + Len(stderr) = stdin_pos

\* C11 as stated: every line read has put exactly one object on standard
\* output, a result object for a dispatch that returned and an error object
\* for a line that failed, and the objects stand in the order of the lines.
\* (Stated for the runs of the loop that no exception has ended.)
C11_OneStdoutObjectPerLine ==
  (stdio_exc = "" /\ stdio_pc \in {"read", "exited"})
    => /\ Len(stdout) = stdin_pos
       /\ \A k \in 1..Len(stdout) :
            /\ stdout[k].line = k
            /\ stdout[k].kind \in {"result", "error"}

(***************************************************************************)
(* Properties of the HTTP transports.                                      *)
(***************************************************************************)
\* C12: the response of POST /rpc carries the request's id; for a dispatch
\* that returned it is the result envelope with the dispatch result, and
\* for a dispatch that raised (operation not found, bad request, auth,
\* upstream, not implemented, or any other exception) it is the error
\* envelope with code -32603 and the error's detail, never a result.
C12_RpcEnvelope ==
  (inbound.kind = "rpc" /\ transport_pc = "closed")
    => /\ pc = "done"
       /\ reply.id = inbound.id
       /\ outcome.kind = "return" =>
            /\ reply.kind = "result"
            /\ reply.status_code = 200
            /\ reply.result = outcome.value
       /\ outcome.kind = "raise" =>
            /\ reply.kind = "error"
            /\ reply.status_code = 500
            /\ reply.code = -32603
            /\ reply.data = outcome.detail
            /\ reply.result = NullV

\* C12's case: a request with a string id whose dispatch failed for the
\* missing credential has been answered.
C12_Witness ==
  /\ inbound.kind = "rpc"
  /\ transport_pc = "closed"
  /\ inbound.id = StrV(<<"a">>)
  /\ outcome.detail = "required auth key not found"
  /\ reply.kind = "error"

\* C13: a GET /events that names an operation yields no event while the
\* dispatch is awaited and exactly one when it is over, a message event
\* with the dispatch result if it returned and an error event if it
\* raised; after that event the generator only ends.
C13_OneEventThenEnd ==
  /\ []((inbound.kind = "sse" /\ inbound.named) =>
          /\ transport_pc = "open" => events = << >>
          /\ transport_pc \in {"emitted", "closed"} =>
               /\ pc = "done"
               /\ Len(events) = 1
               /\ events[1].id = inbound.method
               /\ outcome.kind = "return" =>
                    events[1].event = "message" /\ events[1].value = outcome.value
               /\ outcome.kind = "raise" =>
                    events[1].event = "error" /\ events[1].data = outcome.detail)
  /\ [][(inbound.kind = "sse" /\ transport_pc = "emitted") =>
          (transport_pc' = "closed" /\ events' = events)]_vars

\* C13's case: the stream of a dispatch that failed downstream has ended
\* after its error event.
C13_Witness ==
  /\ inbound.kind = "sse"
  /\ inbound.named
  /\ transport_pc = "closed"
  /\ outcome.exc = "HTTPStatusError"
  /\ Len(events) = 1
  /\ events[1].event = "error"

(***************************************************************************)
(* Properties of the template helpers.                                     *)
(***************************************************************************)
\* The leaf of TemplateContext at each path that matches its shape.
LeafAt ==
  <<"a">> :> StrV(<<"v">>)
  @@ <<"b">> :> NumV(2)
  @@ <<"t">> :> BoolV(TRUE)
  @@ <<"f">> :> BoolV(FALSE)
  @@ <<"z">> :> NullV
  @@ <<"l">> :> ListV(<<NumV(1), NumV(2)>>)
  @@ <<"m">> :> MapV(<<"k">> :> StrV(<<"a", "b", "c">>))
  @@ <<"m", ".", "k">> :> StrV(<<"a", "b", "c">>)
  @@ <<"l", "[", "0", "]">> :> NumV(1)
  @@ <<"l", ".", "1">> :> NumV(2)

\* The text each of these leaves has inside a longer string.
TextAt ==
  <<"a">> :> <<"v">>
  @@ <<"b">> :> <<"2">>
  @@ <<"t">> :> <<"t", "r", "u", "e">>
  @@ <<"f">> :> <<"f", "a", "l", "s", "e">>
  @@ <<"z">> :> <<"n", "u", "l", "l">>
  @@ <<"l">> :> <<"[", "1", ",", "2", "]">>
  @@ <<"m">> :> <<"{", "\"", "k", "\"", ":", "\"", "a", "b", "c", "\"", "}">>
  @@ <<"m", ".", "k">> :> <<"a", "b", "c">>
  @@ <<"l", "[", "0", "]">> :> <<"1">>
  @@ <<"l", ".", "1">> :> <<"2">>

Unresolved == StrV(<<"$", "{", "u", "}">>)

\* C15: _prune_unresolved of a map or a list is its input without the map
\* entries and list elements, at every depth, whose value is a string that
\* contains a placeholder; the rest is kept with its value and order, and a
\* map or list that loses every member is kept, empty.
C15_PruneDropsPlaceholderStrings ==
  (tpl_pc = "done" /\ tpl_case.fn = "_prune_unresolved")
    => /\ tpl_case.obj = MapV(<<"a">> :> Unresolved @@ <<"b">> :> NumV(1)) =>
            tpl_result = MapV(<<"b">> :> NumV(1))
       /\ tpl_case.obj = ListV(<<Unresolved, NumV(2)>>) =>
            tpl_result = ListV(<<NumV(2)>>)
       /\ tpl_case.obj =
            ListV(<<NumV(1), StrV(<<"x", "$", "{", "u", "}", "y">>), NumV(2),
                    StrV(<<"$", "{", "x">>), BoolV(TRUE), NullV>>) =>
            tpl_result =
              ListV(<<NumV(1), NumV(2), StrV(<<"$", "{", "x">>), BoolV(TRUE), NullV>>)
       /\ tpl_case.obj =
            MapV(<<"a">> :> MapV(<<"b">> :> Unresolved)
                 @@ <<"e">> :> ListV(<<Unresolved>>)
                 @@ <<"i">> :> ListV(<<MapV(<<"n">> :> Unresolved
                                           @@ <<"s">> :> StrV(<<"k">>))>>)) =>
            tpl_result =
              MapV(<<"a">> :> MapV(EmptyMap)
                   @@ <<"e">> :> ListV(<< >>)
                   @@ <<"i">> :> ListV(<<MapV(<<"s">> :> StrV(<<"k">>))>>))
       /\ tpl_case.obj =
            MapV(<<"a">> :> StrV(<<"$", "{", "t", "}">>) @@ <<"b">> :> StrV(<<"w">>)) =>
            tpl_result = MapV(<<"b">> :> StrV(<<"w">>))
       /\ tpl_case.obj \in {MapV(EmptyMap), ListV(<< >>)} => tpl_result = tpl_case.obj

\* C15's case: the nested map has been pruned down to its empty members.
C15_Witness ==
  /\ tpl_pc = "done"
  /\ tpl_case.fn = "_prune_unresolved"
  /\ tpl_case.obj.t = "map"
  /\ <<"e">> \in DOMAIN tpl_case.obj.v
  /\ tpl_result.v[<<"a">>] = MapV(EmptyMap)
  /\ tpl_result.v[<<"e">>] = ListV(<< >>)

\* C16 as stated: _resolve_value returns the leaf, with its type, for every
\* path that matches the shape of the context, and fails for every path
\* that does not: an absent key, an index out of range, a key into a value
\* that is no map, an index into a value that is no list, a string included.
C16_LeafOrPathError ==
  (tpl_pc = "done" /\ tpl_case.fn = "_resolve_value")
    => /\ tpl_case.path \in MatchingPaths => tpl_result = LeafAt[tpl_case.path]
       /\ tpl_case.path \in MismatchingPaths => tpl_result = KeyError

\* C19 as stated: a body field made of two placeholders and nothing else,
\* both resolvable, is sent with the two texts in place.
C19_AdjacentPlaceholdersSubstituted ==
  (tpl_pc = "done" /\ tpl_case.fn = "final_body")
    => \A p1 \in {<<"a">>, <<"b">>}, p2 \in {<<"b">>, <<"m", ".", "k">>} :
         tpl_case.obj = MapV(<<"g">> :> StrV(Placeholder(p1) \o Placeholder(p2))) =>
           tpl_result = MapV(<<"g">> :> StrV(TextAt[p1] \o TextAt[p2]))

(***************************************************************************)
(* Properties of the requests the step executor sends.                     *)
(***************************************************************************)
\* The value holds, at some depth, a string with a placeholder in it.
RECURSIVE HoldsPlaceholder(_)
HoldsPlaceholder(value) ==
  CASE value.t = "str" ->
         \E k \in 1..Len(value.v) :
           /\ k + 2 <= Len(value.v)
           /\ value.v[k] = "$"
           /\ value.v[k + 1] = "{"
           /\ \E j \in (k + 2)..Len(value.v) : value.v[j] = "}"
    [] value.t = "list" -> \E k \in 1..Len(value.v) : HoldsPlaceholder(value.v[k])
    [] value.t = "map" -> \E k \in DOMAIN value.v : HoldsPlaceholder(value.v[k])
    [] OTHER -> FALSE

\* C17 as stated: no body sent holds a string with a placeholder, and a
\* body template's placeholder that does not resolve is pruned without
\* failing the step: the invocation never ends with the error of a body
\* that cannot be serialised.
C17_UnresolvedBodyPrunedNeverFails ==
  /\ \A k \in 1..Len(sent) : ~HoldsPlaceholder(sent[k].json)
  /\ outcome.exc # "TypeError"

\* The text of the path parameter i of the call, as a URL carries it.
PathParamText ==
  IF <<"i">> \in DOMAIN call.params THEN call.params[<<"i">>].v
  ELSE <<"n", "u", "l", "l">>

\* C18: a URL placeholder whose path does not resolve stays in the URL as
\* it is written and the request is issued with it: step u's ${z.i} (no
\* such key) next to its substituted ${path_params.i}, and step t's ${s.i}
\* when no step s has run before it (t first, or s later in the list).  A
\* step u that has a body and needs no credential is always issued.
C18_UnresolvedUrlLeftVerbatim ==
  /\ [](\A k \in 1..Len(sent) :
          /\ steps[k] = StepU =>
               sent[k].url = <<"/", "u", "/", "$", "{", "z", ".", "i", "}", "/">>
                             \o PathParamText
          /\ (steps[k] = StepT /\ \A j \in 1..(k - 1) : steps[j] # StepS) =>
               sent[k].url = <<"/", "b", "/", "$", "{", "s", ".", "i", "}">>)
  /\ [][(/\ pc = "loop"
         /\ step_index <= Len(steps)
         /\ steps[step_index] = StepU
         /\ ~auth_scheme.present
         /\ <<"s">> \in DOMAIN template_data
         /\ template_data[<<"s">>].t = "map") =>
          /\ pc' = "in_flight"
          /\ Len(sent') = Len(sent) + 1]_vars

\* C18's case: step u's request has gone out after step s, with ${z.i} left
\* in its URL and the path parameter 5 substituted.
C18_Witness ==
  /\ steps = <<StepS, StepU>>
  /\ Len(sent) = 2
  /\ sent[2].url = <<"/", "u", "/", "$", "{", "z", ".", "i", "}", "/", "5">>

(***************************************************************************)
(* Properties of concurrent dispatches.                                    *)
(***************************************************************************)
\* The text a URL carries for the field i of a step output.
OutputText(response) ==
  IF response.parsed.v[<<"i">>].t = "num" THEN <<"7">> ELSE response.parsed.v[<<"i">>].v

\* C20: whatever the interleaving of the tasks, no step changes the shared
\* configuration; the context of a task that starts holds the path
\* parameters and the body of its own call and nothing else; the context of
\* a running task holds, besides these, the outputs of its own steps only;
\* and each request of a task is built from that task's own path
\* parameter, body and step output.
C20_TasksShareOnlyTheConfiguration ==
  /\ [][config' = config]_vars
  /\ [][\A i \in TaskIds :
          (tasks[i].pc = "idle" /\ tasks'[i].pc # "idle") =>
            /\ DOMAIN tasks'[i].template_data \subseteq
                 {PATH_PARAMS, INCOMING_REQUEST_BODY}
            /\ tasks'[i].template_data[PATH_PARAMS] = MapV(tasks'[i].params)
            /\ tasks'[i].sent = << >>]_vars
  /\ [](\A i \in TaskIds :
          LET task == tasks[i]
          IN  /\ task.pc = "idle" => task = IdleTask
              /\ task.pc # "idle" =>
                   /\ task.template_data[PATH_PARAMS] = MapV(task.params)
                   /\ task.body = None =>
                        INCOMING_REQUEST_BODY \notin DOMAIN task.template_data
                   /\ task.body # None =>
                        task.template_data[INCOMING_REQUEST_BODY] = task.body
                   /\ <<"s">> \in DOMAIN task.template_data =>
                        /\ Len(task.received) >= 1
                        /\ task.template_data[<<"s">>] = task.received[1].parsed
                   /\ <<"t">> \in DOMAIN task.template_data =>
                        /\ Len(task.received) >= 2
                        /\ task.template_data[<<"t">>] = task.received[2].parsed
              /\ Len(task.sent) >= 1 =>
                   task.sent[1].url = <<"/", "a", "/">> \o task.params[<<"i">>].v
              /\ Len(task.sent) >= 2 =>
                   /\ task.sent[2].url =
                        <<"/", "b", "/">> \o OutputText(task.received[1])
                   /\ task.sent[2].json.v[<<"m">>] = task.received[1].parsed.v[<<"i">>]
                   /\ IF task.body = None
                      THEN <<"n">> \notin DOMAIN task.sent[2].json.v
                      ELSE task.sent[2].json.v[<<"n">>] = task.body.v[<<"n">>])

\* C20's case: two calls with different path parameters and bodies are both
\* awaiting their second step, their first steps having returned different
\* outputs.
C20_Witness ==
  /\ tasks # << >>
  /\ tasks[1].pc = "in_flight"
  /\ tasks[2].pc = "in_flight"
  /\ Len(tasks[1].sent) = 2
  /\ Len(tasks[2].sent) = 2
  /\ tasks[1].params # tasks[2].params
  /\ tasks[1].body # tasks[2].body
  /\ tasks[1].received[1] # tasks[2].received[1]


(***************************************************************************)
(* Properties of the outbound client.                                      *)
(***************************************************************************)
\* C21: an invocation that has ended, by the return or by any exception,
\* has closed the client it opened; while an invocation stands in the loop
\* or awaits a response its client is open; and a step that closes the
\* client of one invocation leaves every other invocation, its client
\* included, as it was.
C21_ClientClosedOnEveryExit ==
  /\ [](\A i \in TaskIds :
          /\ tasks[i].pc = "idle" => tasks[i].client = "none"
          /\ tasks[i].pc \in {"loop", "in_flight"} => tasks[i].client = "open"
          /\ tasks[i].pc = "done" =>
               /\ tasks[i].client = "closed"
               /\ tasks[i].outcome.kind \in {"return", "raise"})
  /\ [][\A i \in TaskIds :
          (tasks[i].client = "open" /\ tasks'[i].client = "closed") =>
            \A j \in TaskIds \ {i} : tasks'[j] = tasks[j]]_vars

\* C21's case: one invocation has ended by a transport failure and closed
\* its client while another, started before that, still awaits the
\* response to its second request.
C21_Witness ==
  /\ tasks # << >>
  /\ tasks[1].pc = "done"
  /\ tasks[1].outcome.exc = "TransportError"
  /\ tasks[1].client = "closed"
  /\ tasks[2].pc = "in_flight"
  /\ Len(tasks[2].sent) = 2
  /\ tasks[2].client = "open"


(***************************************************************************)
(* Properties of the execution context.                                    *)
(***************************************************************************)
\* The step_ids of the invocations' steps are pairwise distinct.
DistinctStepIds ==
  \A j, k \in 1..Len(SharedSteps) :
    j # k => SharedSteps[j].step_id # SharedSteps[k].step_id

\* C22 as stated: over steps of pairwise distinct step_ids, no step of an
\* invocation removes a key of its context or replaces the value under
\* one, and while the invocation runs the context holds the keys it was
\* seeded with and the ids of the steps executed so far, and no other.
C22_ContextOnlyGrows ==
  /\ [][DistinctStepIds =>
          \A i \in TaskIds :
            (tasks[i].pc # "idle" /\ tasks'[i].pc # "idle") =>
              \A key \in DOMAIN tasks[i].template_data :
                /\ key \in DOMAIN tasks'[i].template_data
                /\ tasks'[i].template_data[key] = tasks[i].template_data[key]]_vars
  /\ [](DistinctStepIds =>
          \A i \in TaskIds :
            tasks[i].pc \in {"loop", "in_flight"} =>
              DOMAIN tasks[i].template_data =
                {PATH_PARAMS}
                \cup {SharedSteps[k].step_id : k \in 1..(tasks[i].step_index - 1)})


(***************************************************************************)
(* Properties of create_pydantic_models.                                   *)
(***************************************************************************)
\* The names a schema's '$ref' properties refer to.
RefNames(schema) ==
  {LastSegment(schema.properties[prop].ref) :
     prop \in {q \in DOMAIN schema.properties : Len(schema.properties[q].ref) > 0}}

\* The schemas that can be built within the given number of rounds, each
\* round building those that refer only to schemas built in earlier rounds.
RECURSIVE Buildable(_, _)
Buildable(schemas, rounds) ==
  IF rounds = 0 THEN {}
  ELSE LET earlier == Buildable(schemas, rounds - 1)
       IN  {schemas[k].name :
              k \in {j \in 1..Len(schemas) : RefNames(schemas[j]) \subseteq earlier}}

\* No schema of the table depends, directly or through others, on itself,
\* on a cycle or on a schema the table lacks.
WellFounded(schemas) ==
  Buildable(schemas, Len(schemas)) = {schemas[k].name : k \in 1..Len(schemas)}

\* C23: the call ends; every pass that does not raise creates at least one
\* model, so the passes never number more than the schemas; the call
\* raises exactly when a schema depends on a cycle, on itself or on a
\* missing schema; and when it returns, it returns a model for every
\* schema of the table, nothing left to process.
C23_ModelsBuiltOrErrorRaised ==
  /\ <>(builder.pc \in {"returned", "raised"})
  /\ [][(builder.pc = "loop" /\ builder'.pc = "loop" /\ builder' # builder) =>
          /\ builder'.passes = builder.passes + 1
          /\ builder.model_cache \subseteq builder'.model_cache
          /\ Cardinality(builder'.model_cache) > Cardinality(builder.model_cache)]_vars
  /\ [](builder.passes <= Len(config.schemas))
  /\ [](builder.pc = "raised" => ~WellFounded(config.schemas))
  /\ [](builder.pc = "returned" =>
          /\ WellFounded(config.schemas)
          /\ builder.schemas_to_process = << >>
          /\ builder.model_cache =
               {config.schemas[k].name : k \in 1..Len(config.schemas)})

\* C23's case: the first pass built one schema of the table, and the
\* second pass, stuck on the one that remains (it refers to itself or to a
\* schema the table lacks), raised.
C23_Witness ==
  /\ builder.pc = "raised"
  /\ builder.passes = 1
  /\ Cardinality(builder.model_cache) = 1
  /\ Len(builder.schemas_to_process) = 1
  /\ ~WellFounded(config.schemas)


(***************************************************************************)
(* Properties of the ids the stdio loop answers with.                      *)
(***************************************************************************)
\* The id of the request a line of input carries: None for a line that is
\* not JSON, is no object or has no id.
LineId(line) ==
  IF line.valid /\ line.data.t = "map" THEN DictGet(line.data, ID) ELSE None

\* C24 as stated: every error object written carries the id of the request
\* of the line it answers, and no id when that line has none; never the id
\* of a request read before it.
C24_ErrorCarriesOwnId ==
  \A k \in 1..Len(stderr) : stderr[k].id = LineId(stdin[stderr[k].line])


(***************************************************************************)
(* Properties of the body the dispatcher hands to the step executor.       *)
(***************************************************************************)
\* C25 as stated: a dispatch without a body of an operation that declares a
\* request body either enters the step executor with a body, synthesized
\* from params, or has failed with a 400 before the executor was entered
\* and any request sent, whatever the params and the body schema reference.
C25_BodyPresentOrBadRequest ==
  BodyRequiredAndAbsent
    => \/ /\ InExecutor
          /\ incoming_body # None
          /\ INCOMING_REQUEST_BODY \in DOMAIN template_data
       \/ /\ pc = "done"
          /\ outcome.exc = "HTTPException"
          /\ outcome.status = 400
          /\ client = "none"
          /\ sent = << >>

=============================================================================
